---- MODULE Spec2Model ----
(***************************************************************************)
(* A model of qzcli's persistent configuration store (config.py): the      *)
(* config, cookie, token-cache and resource-cache documents, the           *)
(* per-workspace resource cache and the name resolver built on it.         *)
(*                                                                         *)
(* A Python dict is modelled as a sequence of [k, v] pairs with distinct   *)
(* keys, in insertion order (the order dict iteration and json.dump        *)
(* follow).  A Python str used as a name is a sequence of one-character    *)
(* strings, so that str.lower() and the substring test `in` are computed.  *)
(***************************************************************************)
EXTENDS Integers, Sequences, FiniteSets, TLC

VARIABLES
    resfile,     \* content of RESOURCES_FILE (resources.json)
    cfgfile,     \* content of CONFIG_FILE (config.json)
    cookiefile,  \* content of COOKIE_FILE (.cookie)
    tokenfile,   \* content of TOKEN_CACHE_FILE (.token_cache)
    clock,       \* the value time.time() returned last
    ret,         \* the last call of the API: its name, arguments and outcome
    lastNonEmpty,\* history: per workspace, the most recent non-empty name supplied
    lastAssigned,\* history: per workspace, the name the most recent assigning call supplied
    pc,          \* per CLI invocation: its position in the load-modify-write
    local,       \* per CLI invocation: the all_resources dict it holds in memory
    call,        \* per CLI invocation: the call it runs
    overlapped,  \* history: the two invocations' load-modify-writes overlapped in time
    store        \* the job store: the job-records document, job_id -> record

vars == <<resfile, cfgfile, cookiefile, tokenfile, clock, ret,
          lastNonEmpty, lastAssigned, pc, local, call, overlapped, store>>

(***************************************************************************)
(* Bounds and input domains                                                *)
(***************************************************************************)
MaxTime == 3        \* time.time() is read at most this many times
MaxNameLen == 2     \* length of the names the resolver is queried with

Alphabet == {"a", "A"}
WsIds == {"ws-1", "ws-2"}
Categories == {"projects", "compute_groups", "specs"}

RECURSIVE SeqsUpTo(_, _)
SeqsUpTo(S, n) ==
    IF n = 0 THEN {<<>>}
    ELSE LET shorter == SeqsUpTo(S, n - 1)
         IN  shorter \cup {Append(s, x) : s \in shorter, x \in S}

Names == SeqsUpTo(Alphabet, MaxNameLen)
AliasInputs == {n \in Names : Len(n) <= 1}

Rec(i, n) == [id |-> i, name |-> n]

\* payloads of the kind api.extract_resources_from_jobs returns; a missing
\* key, a repeated id and an empty list are all among them
ResourceInputs ==
    { [x \in {} |-> <<>>],
      [projects |-> <<Rec("r1", <<"a">>)>>],
      [projects |-> <<Rec("r1", <<"a">>), Rec("r2", <<"A">>)>>,
       compute_groups |-> <<Rec("r2", <<"a">>)>>,
       specs |-> <<>>],
      [projects |-> <<>>,
       compute_groups |-> <<Rec("r1", <<"a">>), Rec("r1", <<"A">>)>>,
       specs |-> <<Rec("r2", <<"A">>), Rec("r1", <<"a">>)>>] }

(***************************************************************************)
(* Python values                                                           *)
(***************************************************************************)
EmptyDict == <<>>
Keys(d) == {d[i].k : i \in DOMAIN d}
HasKey(d, key) == key \in Keys(d)
Get(d, key) == d[CHOOSE i \in DOMAIN d : d[i].k = key].v
Values(d) == {d[i].v : i \in DOMAIN d}

\* d[key] = val: an existing key keeps its position, a new key goes last
Put(d, key, val) ==
    IF HasKey(d, key)
    THEN [i \in DOMAIN d |-> IF d[i].k = key THEN [k |-> key, v |-> val] ELSE d[i]]
    ELSE Append(d, [k |-> key, v |-> val])

\* resources.get(category, [])
ResGet(resources, category) ==
    IF category \in DOMAIN resources THEN resources[category] ELSE <<>>

\* bool(s) of a str
Truthy(s) == s # <<>>

(***************************************************************************)
(* Files and JSON                                                          *)
(*                                                                         *)
(* A file is missing, holds the complete JSON text of a value ("json"),    *)
(* holds a strict prefix of a JSON text ("truncated": what open(.., "w")   *)
(* followed by an unfinished json.dump leaves, the empty file included),   *)
(* or holds bytes that are not UTF-8 ("undecodable": among others a prefix *)
(* that ends inside a multi-byte character; the dumps pass                 *)
(* ensure_ascii=False, so names are written as raw UTF-8).                 *)
(***************************************************************************)
Missing == [kind |-> "missing", val |-> <<>>]
Truncated == [kind |-> "truncated", val |-> <<>>]
Undecodable == [kind |-> "undecodable", val |-> <<>>]
JsonFile(val) == [kind |-> "json", val |-> val]

Return(val) == [exc |-> "none", val |-> val]
Raise(exc) == [exc |-> exc, val |-> <<>>]

\* Path.exists()
exists(file) == file.kind # "missing"

\* open(file, "r", encoding="utf-8") followed by json.load(f)
json_load(file) ==
    CASE file.kind = "json" -> Return(file.val)
      [] file.kind = "truncated" -> Raise("JSONDecodeError")
      [] file.kind = "undecodable" -> Raise("UnicodeDecodeError")
      [] OTHER -> Raise("IOError")

\* the exceptions every loader catches: except (json.JSONDecodeError, IOError)
Caught == {"JSONDecodeError", "IOError"}

\* open(file, "w") followed by json.dump(val, f): open truncates the file in
\* place, the dump then writes it piece by piece.  fault is where the write
\* stops: nowhere ("none"), in open ("open"), after open and before the dump
\* has finished ("dump"), or there and inside a multi-byte character ("split").
Faults == {"none", "open", "dump", "split"}
json_dump_to(file, val, fault) ==
    CASE fault = "none" -> [file |-> JsonFile(val), exc |-> "none"]
      [] fault = "open" -> [file |-> file, exc |-> "IOError"]
      [] fault = "dump" -> [file |-> Truncated, exc |-> "IOError"]
      [] OTHER -> [file |-> Undecodable, exc |-> "IOError"]

(***************************************************************************)
(* The resource cache                                                      *)
(***************************************************************************)
load_all_resources(file) ==
    IF ~exists(file) THEN Return(EmptyDict)
    ELSE LET r == json_load(file)
         IN  IF r.exc = "none" THEN r
             ELSE IF r.exc \in Caught THEN Return(EmptyDict)
             ELSE r

\* all_resources.get(workspace_id)
get_workspace_resources(file, workspace_id) ==
    LET r == load_all_resources(file)
    IN  IF r.exc # "none" THEN r
        ELSE IF HasKey(r.val, workspace_id)
             THEN Return([found |-> TRUE, entry |-> Get(r.val, workspace_id)])
             ELSE Return([found |-> FALSE])

\* a comprehension in which the first occurrence of an id wins
RECURSIVE ById_FirstWins(_)
ById_FirstWins(records) ==
    IF records = <<>> THEN EmptyDict
    ELSE LET n == Len(records)
             d == ById_FirstWins(SubSeq(records, 1, n - 1))
         IN  IF HasKey(d, records[n].id) THEN d
             ELSE Put(d, records[n].id, records[n])

\* {p["id"]: p for p in records}
RECURSIVE ById(_)
ById(records) ==
    IF records = <<>> THEN EmptyDict
    ELSE LET n == Len(records)
         IN  Put(ById(SubSeq(records, 1, n - 1)), records[n].id, records[n])

\* an entry name that forgets the prior alias
EntryName_NoRetain(all_resources, workspace_id, name) == name

\* name or all_resources.get(workspace_id, {}).get("name", "")
EntryName(all_resources, workspace_id, name) ==
    IF Truthy(name) THEN name
    ELSE IF HasKey(all_resources, workspace_id)
         THEN Get(all_resources, workspace_id).name
         ELSE <<>>

\* the entry save_resources builds
NewEntry(all_resources, workspace_id, resources, name, now) ==
    [id |-> workspace_id,
     name |-> EntryName(all_resources, workspace_id, name),
     projects |-> ById(ResGet(resources, "projects")),
     compute_groups |-> ById(ResGet(resources, "compute_groups")),
     specs |-> ById(ResGet(resources, "specs")),
     updated_at |-> now]

\* a save_resources that dumps its own entry alone
save_resources_Alone(all_resources, workspace_id, resources, name, now) ==
    Put(EmptyDict, workspace_id,
        NewEntry(all_resources, workspace_id, resources, name, now))

\* the dict save_resources dumps
save_resources(all_resources, workspace_id, resources, name, now) ==
    Put(all_resources, workspace_id,
        NewEntry(all_resources, workspace_id, resources, name, now))

\* the entry set_workspace_name creates for a workspace that is not cached
EmptyEntry(workspace_id, name, now) ==
    [id |-> workspace_id, name |-> name, projects |-> EmptyDict,
     compute_groups |-> EmptyDict, specs |-> EmptyDict, updated_at |-> now]

\* a set_workspace_name that replaces the whole entry
set_workspace_name_Reset(all_resources, workspace_id, name, now) ==
    Put(all_resources, workspace_id, EmptyEntry(workspace_id, name, now))

\* the dict set_workspace_name dumps
set_workspace_name(all_resources, workspace_id, name, now) ==
    IF ~HasKey(all_resources, workspace_id)
    THEN Put(all_resources, workspace_id, EmptyEntry(workspace_id, name, now))
    ELSE Put(all_resources, workspace_id,
             [Get(all_resources, workspace_id) EXCEPT !.name = name])

(***************************************************************************)
(* The calls of the cache API as steps.  fault is where the write of the   *)
(* call stops (see json_dump_to).                                          *)
(***************************************************************************)
resVars == <<resfile, clock, ret, lastNonEmpty, lastAssigned>>
docVars == <<cfgfile, cookiefile, tokenfile>>
procVars == <<pc, local, call, overlapped>>
jobVars == <<store>>

NoCall == [op |-> "none"]

\* the history of the names supplied for a workspace
Supply(hist, workspace_id, name) ==
    IF Truthy(name) THEN [hist EXCEPT ![workspace_id] = name] ELSE hist

SaveResources(workspace_id, resources, name, fault) ==
    LET ld == load_all_resources(resfile)
        now == clock + 1
        w == json_dump_to(resfile,
                 save_resources(ld.val, workspace_id, resources, name, now), fault)
    IN  /\ clock < MaxTime
        /\ IF ld.exc # "none"
           THEN /\ ret' = [op |-> "save_resources", ws |-> workspace_id,
                           name |-> name, resources |-> resources, exc |-> ld.exc]
                /\ UNCHANGED <<resfile, clock, lastNonEmpty, lastAssigned>>
           ELSE /\ resfile' = w.file
                /\ clock' = now
                /\ ret' = [op |-> "save_resources", ws |-> workspace_id,
                           name |-> name, resources |-> resources, exc |-> w.exc]
                /\ lastNonEmpty' = Supply(lastNonEmpty, workspace_id, name)
                /\ lastAssigned' = Supply(lastAssigned, workspace_id, name)
        /\ UNCHANGED <<docVars, procVars, jobVars>>

SetWorkspaceName(workspace_id, name, fault) ==
    LET ld == load_all_resources(resfile)
        created == ld.exc = "none" /\ ~HasKey(ld.val, workspace_id)
        now == IF created THEN clock + 1 ELSE clock
        w == json_dump_to(resfile,
                 set_workspace_name(ld.val, workspace_id, name, now), fault)
    IN  /\ now <= MaxTime
        /\ IF ld.exc # "none"
           THEN /\ ret' = [op |-> "set_workspace_name", ws |-> workspace_id,
                           name |-> name, exc |-> ld.exc, result |-> FALSE]
                /\ UNCHANGED <<resfile, clock, lastNonEmpty, lastAssigned>>
           ELSE /\ resfile' = w.file
                /\ clock' = now
                /\ ret' = [op |-> "set_workspace_name", ws |-> workspace_id,
                           name |-> name, exc |-> w.exc,
                           result |-> (w.exc = "none")]
                /\ lastNonEmpty' = Supply(lastNonEmpty, workspace_id, name)
                /\ lastAssigned' = [lastAssigned EXCEPT ![workspace_id] = name]
        /\ UNCHANGED <<docVars, procVars, jobVars>>

GetWorkspaceResources(workspace_id) ==
    LET r == get_workspace_resources(resfile, workspace_id)
    IN  /\ ret' = [op |-> "get_workspace_resources", ws |-> workspace_id,
                   exc |-> r.exc, result |-> r.val]
        /\ UNCHANGED <<resfile, clock, lastNonEmpty, lastAssigned, docVars, procVars, jobVars>>

Idle ==
    /\ pc = [p \in {1, 2} |-> "idle"]
    /\ local = [p \in {1, 2} |-> EmptyDict]
    /\ call = [p \in {1, 2} |-> NoCall]
    /\ overlapped = FALSE

Init ==
    /\ resfile = Missing
    /\ cfgfile = Missing
    /\ cookiefile = Missing
    /\ tokenfile = Missing
    /\ clock = 0
    /\ ret = NoCall
    /\ lastNonEmpty = [w \in WsIds |-> <<>>]
    /\ lastAssigned = [w \in WsIds |-> <<>>]
    /\ Idle
    /\ store = EmptyDict

Next ==
    \/ \E w \in WsIds, r \in ResourceInputs, n \in AliasInputs :
           SaveResources(w, r, n, "none")
    \/ \E w \in WsIds, n \in AliasInputs : SetWorkspaceName(w, n, "none")
    \/ \E w \in WsIds : GetWorkspaceResources(w)

Spec == Init /\ [][Next]_vars

\* the document the cache file holds, as load_all_resources reads it
Cache == load_all_resources(resfile).val
Cached(workspace_id) == HasKey(Cache, workspace_id)
Alias(workspace_id) ==
    IF Cached(workspace_id) THEN Get(Cache, workspace_id).name ELSE <<>>

(***************************************************************************)
(* Claims about the alias and the maps of a cached workspace               *)
(***************************************************************************)

\* C1 as stated: after any sequence of save_resources and set_workspace_name
\* calls the stored alias of every workspace is the most recent non-empty
\* name supplied for it ("" if none was).
C1_AliasIsLastNonEmptyName ==
    \A w \in WsIds : Alias(w) = lastNonEmpty[w]

\* C1 as amended: the stored alias of every workspace is the name supplied by
\* the most recent call that was a set_workspace_name (any name, the empty
\* one included) or a save_resources with a non-empty name ("" if none was);
\* a save_resources with an empty name keeps the alias.
C1_AliasIsLastAssignedName ==
    \A w \in WsIds : Alias(w) = lastAssigned[w]

\* a save_resources with an empty name has run on an aliased workspace
C1_Witness ==
    /\ ret.op = "save_resources"
    /\ ~Truthy(ret.name)
    /\ Truthy(Alias(ret.ws))

\* the index of the last record of a list that carries an id
LastIndex(records, id) ==
    CHOOSE i \in DOMAIN records :
        /\ records[i].id = id
        /\ \A j \in DOMAIN records : records[j].id = id => j <= i

\* C6: after save_resources(ws, resources) each of the three maps of ws holds
\* exactly one record per distinct id of the corresponding supplied list,
\* keyed by that id and equal to the last record of the list with that id;
\* nothing else (no record of the maps cached before) is in the map.
C6_MapsReplacedWholesale ==
    (ret.op = "save_resources" /\ ret.exc = "none") =>
        \A c \in Categories :
            LET m == Get(Cache, ret.ws)[c]
                l == ResGet(ret.resources, c)
            IN  /\ Keys(m) = {l[i].id : i \in DOMAIN l}
                /\ Len(m) = Cardinality(Keys(m))
                /\ \A i \in DOMAIN m : m[i].v = l[LastIndex(l, m[i].k)]

\* a save_resources whose list repeats an id with two different records
C6_Witness ==
    /\ ret.op = "save_resources"
    /\ \E c \in Categories :
           LET l == ResGet(ret.resources, c)
           IN  \E i, j \in DOMAIN l : i < j /\ l[i].id = l[j].id /\ l[i] # l[j]

LowerTable ==
    [A |-> "a", B |-> "b", C |-> "c", D |-> "d", E |-> "e", F |-> "f",
     G |-> "g", H |-> "h", I |-> "i", J |-> "j", K |-> "k", L |-> "l",
     M |-> "m", N |-> "n", O |-> "o", P |-> "p", Q |-> "q", R |-> "r",
     S |-> "s", T |-> "t", U |-> "u", V |-> "v", W |-> "w", X |-> "x",
     Y |-> "y", Z |-> "z"]
LowerChar(c) == IF c \in DOMAIN LowerTable THEN LowerTable[c] ELSE c
lower(s) == [i \in DOMAIN s |-> LowerChar(s[i])]

\* needle in hay, of two str
Contains(needle, hay) ==
    \E i \in 1..(Len(hay) - Len(needle) + 1) :
        SubSeq(hay, i, i + Len(needle) - 1) = needle

\* a substring test that does not fold case
FuzzyMatch_CaseSensitive(record_name, name) == Contains(name, record_name)

\* the two tests of the resolver, on the name of a cached record
ExactMatch(record_name, name) == record_name = name
FuzzyMatch(record_name, name) == Contains(lower(name), lower(record_name))

\* the position at which a loop over d.items() returns, given the positions
\* that pass its test (0: the loop ends without returning)
FirstMatch(positions) ==
    IF positions = {} THEN 0
    ELSE CHOOSE i \in positions : \A j \in positions : i <= j

ExactPass(d, name) ==
    FirstMatch({i \in DOMAIN d : ExactMatch(d[i].v.name, name)})
FuzzyPass(d, name) ==
    FirstMatch({i \in DOMAIN d : FuzzyMatch(d[i].v.name, name)})

\* a resolver with the substring pass only
TwoPass_FuzzyOnly(d, name) == FuzzyPass(d, name)

\* the exact pass, then the case-insensitive substring pass
TwoPass(d, name) ==
    LET e == ExactPass(d, name)
    IN  IF e # 0 THEN e ELSE FuzzyPass(d, name)

NotFound == [found |-> FALSE]

find_workspace_by_name(file, name) ==
    LET ld == load_all_resources(file)
    IN  IF ld.exc # "none" THEN ld
        ELSE LET i == TwoPass(ld.val, name)
             IN  IF i = 0 THEN Return(NotFound)
                 ELSE Return([found |-> TRUE, id |-> ld.val[i].k])

\* a lookup that ignores the requested category
CategoryMap_Projects(ws_resources, resource_type) == ws_resources.projects

\* ws_resources.get(resource_type, {})
CategoryMap(ws_resources, resource_type) ==
    IF resource_type \in DOMAIN ws_resources
    THEN ws_resources[resource_type] ELSE EmptyDict

find_resource_by_name(file, workspace_id, resource_type, name) ==
    LET got == get_workspace_resources(file, workspace_id)
    IN  IF got.exc # "none" THEN got
        ELSE IF ~got.val.found THEN Return(NotFound)
        ELSE LET resources == CategoryMap(got.val.entry, resource_type)
                 i == TwoPass(resources, name)
             IN  IF i = 0 THEN Return(NotFound)
                 ELSE Return([found |-> TRUE, record |-> resources[i].v])

(***************************************************************************)
(* The resolver as a function of the cache: the cache and the query are    *)
(* drawn by FindInit, and one step answers the query.                      *)
(***************************************************************************)
ResIds == {"r1", "r2"}

\* the lists of records with distinct ids
NameLists ==
    {<<>>} \cup {<<Rec(i, n)>> : i \in ResIds, n \in Names}
           \cup {<<Rec(i, n), Rec(j, k)>> : <<i, j>> \in {<<"r1", "r2">>, <<"r2", "r1">>},
                                            <<n, k>> \in Names \X Names}

OtherList == <<Rec("r3", <<"a">>)>>
NamedResourceInputs ==
    {[c \in Categories |-> IF c = cat THEN l ELSE OtherList] :
         cat \in Categories, l \in NameLists}

\* caches two save_resources calls leave: the aliases vary ...
AliasDocs ==
    {save_resources(save_resources(EmptyDict, w1, [x \in {} |-> <<>>], n1, 1),
                    w2, [x \in {} |-> <<>>], n2, 2) :
         <<w1, w2>> \in WsIds \X WsIds, <<n1, n2>> \in Names \X Names}

\* ... or the names of the records of ws-1 do
ResourceDocs ==
    {save_resources(save_resources(EmptyDict, w1,
                                   [c \in Categories |-> <<Rec("r4", <<"A">>)>>],
                                   <<"a">>, 1),
                    "ws-1", r, <<>>, 2) :
         w1 \in WsIds, r \in NamedResourceInputs}

FindFiles == {Missing} \cup {JsonFile(d) : d \in AliasDocs \cup ResourceDocs}

Queries ==
    {[op |-> "pending", fn |-> "find_workspace_by_name", name |-> n] : n \in Names}
    \cup {[op |-> "pending", fn |-> "find_resource_by_name", ws |-> w,
           resource_type |-> c, name |-> n] :
              w \in WsIds, c \in Categories, n \in Names}

FindInit ==
    /\ resfile \in FindFiles
    /\ ret \in Queries
    /\ cfgfile = Missing
    /\ cookiefile = Missing
    /\ tokenfile = Missing
    /\ clock = 2
    /\ lastNonEmpty = [w \in WsIds |-> <<>>]
    /\ lastAssigned = [w \in WsIds |-> <<>>]
    /\ Idle
    /\ store = EmptyDict

FindWorkspaceByName ==
    /\ ret.op = "pending"
    /\ ret.fn = "find_workspace_by_name"
    /\ LET r == find_workspace_by_name(resfile, ret.name)
       IN  ret' = [op |-> "find_workspace_by_name", name |-> ret.name,
                   exc |-> r.exc, result |-> r.val]
    /\ UNCHANGED <<resfile, clock, lastNonEmpty, lastAssigned, docVars, procVars, jobVars>>

FindResourceByName ==
    /\ ret.op = "pending"
    /\ ret.fn = "find_resource_by_name"
    /\ LET r == find_resource_by_name(resfile, ret.ws, ret.resource_type, ret.name)
       IN  ret' = [op |-> "find_resource_by_name", ws |-> ret.ws,
                   resource_type |-> ret.resource_type, name |-> ret.name,
                   exc |-> r.exc, result |-> r.val]
    /\ UNCHANGED <<resfile, clock, lastNonEmpty, lastAssigned, docVars, procVars, jobVars>>

FindNext == FindWorkspaceByName \/ FindResourceByName

SpecFind == FindInit /\ [][FindNext]_vars

\* the positions of a dict whose record name equals / contains the name
EqualAt(d, name) == {i \in DOMAIN d : d[i].v.name = name}
ContainAt(d, name) ==
    {i \in DOMAIN d :
        \E from \in 1..(Len(d[i].v.name) + 1), to \in 0..Len(d[i].v.name) :
            /\ to - from + 1 = Len(name)
            /\ \A x \in 1..Len(name) :
                   LowerChar(d[i].v.name[from + x - 1]) = LowerChar(name[x])}
Least(S) == CHOOSE i \in S : \A j \in S : i <= j

\* C2: when some cached workspace has the alias name exactly,
\* find_workspace_by_name(name) returns the id of a workspace whose alias is
\* exactly name, whatever aliases containing name come earlier in the cache.
C2_ExactAliasWins ==
    (ret.op = "find_workspace_by_name" /\ EqualAt(Cache, ret.name) # {}) =>
        /\ ret.exc = "none"
        /\ ret.result.found
        /\ Cached(ret.result.id)
        /\ Get(Cache, ret.result.id).name = ret.name

\* the exact match was found behind an alias that merely contains the name
C2_Witness ==
    /\ ret.op = "find_workspace_by_name"
    /\ Len(Cache) = 2
    /\ 1 \in ContainAt(Cache, ret.name) \ EqualAt(Cache, ret.name)
    /\ 2 \in EqualAt(Cache, ret.name)
    /\ Truthy(ret.name)
    /\ ret.result = [found |-> TRUE, id |-> Cache[2].k]

\* C3: when no cached alias equals name, find_workspace_by_name(name) returns
\* the first workspace in insertion order whose alias contains name case-
\* insensitively; it returns no match exactly when no alias contains name
\* (the empty name is contained in every alias).
C3_FirstSubstringMatch ==
    ret.op = "find_workspace_by_name" =>
        /\ ret.exc = "none"
        /\ ret.result.found <=> ContainAt(Cache, ret.name) # {}
        /\ (EqualAt(Cache, ret.name) = {} /\ ContainAt(Cache, ret.name) # {}) =>
               ret.result.id = Cache[Least(ContainAt(Cache, ret.name))].k
        /\ (ret.name = <<>> /\ Cache # EmptyDict) => ret.result.found

\* two aliases contain the name, none equals it, and the first one is returned
C3_Witness ==
    /\ ret.op = "find_workspace_by_name"
    /\ Truthy(ret.name)
    /\ EqualAt(Cache, ret.name) = {}
    /\ ContainAt(Cache, ret.name) = {1, 2}
    /\ Cache[1].v.name # Cache[2].v.name
    /\ ret.result = [found |-> TRUE, id |-> Cache[1].k]

\* C4: find_resource_by_name(workspace_id, category, name) resolves within the
\* map of that category of that workspace only: no match when the workspace
\* is not cached or no record of the map contains name; else the first record
\* of the map named exactly name; else the first one whose name contains name.
C4_ResourceResolvedInCategory ==
    ret.op = "find_resource_by_name" =>
        /\ ret.exc = "none"
        /\ IF ~Cached(ret.ws) THEN ~ret.result.found
           ELSE LET m == Get(Cache, ret.ws)[ret.resource_type]
                    E == EqualAt(m, ret.name)
                    M == ContainAt(m, ret.name)
                IN  IF M = {} THEN ~ret.result.found
                    ELSE /\ ret.result.found
                         /\ ret.result.record \in Values(m)
                         /\ ret.result.record =
                                m[Least(IF E # {} THEN E ELSE M)].v

\* an exactly named record was found behind one that contains the name, while
\* another category of the workspace holds a record containing the name too
C4_Witness ==
    /\ ret.op = "find_resource_by_name"
    /\ Cached(ret.ws)
    /\ LET m == Get(Cache, ret.ws)[ret.resource_type]
       IN  /\ Len(m) = 2
           /\ 1 \in ContainAt(m, ret.name) \ EqualAt(m, ret.name)
           /\ 2 \in EqualAt(m, ret.name)
           /\ ret.result = [found |-> TRUE, record |-> m[2].v]
    /\ \E c \in Categories \ {ret.resource_type} :
           ContainAt(Get(Cache, ret.ws)[c], ret.name) # {}

(***************************************************************************)
(* The config, cookie and token-cache documents                            *)
(***************************************************************************)
DEFAULT_CONFIG ==
    [api_base_url |-> "https://qz.sii.edu.cn", username |-> "",
     password |-> "", token_cache_enabled |-> TRUE]

None == [none |-> TRUE]

\* a merge in which the defaults override the loaded keys
Merge_DefaultsWin(defaults, config) ==
    [key \in DOMAIN defaults \cup DOMAIN config |->
        IF key \in DOMAIN defaults THEN defaults[key] ELSE config[key]]

\* {**defaults, **config}
Merge(defaults, config) ==
    [key \in DOMAIN defaults \cup DOMAIN config |->
        IF key \in DOMAIN config THEN config[key] ELSE defaults[key]]

load_config(file) ==
    IF exists(file)
    THEN LET r == json_load(file)
         IN  IF r.exc = "none" THEN Return(Merge(DEFAULT_CONFIG, r.val))
             ELSE IF r.exc \in Caught THEN Return(DEFAULT_CONFIG)
             ELSE r
    ELSE Return(DEFAULT_CONFIG)

save_config(file, config, fault) == json_dump_to(file, config, fault)

\* seconds of validity get_token_cache keeps in reserve
TokenBuffer == 300

get_token_cache(file, now) ==
    IF ~exists(file) THEN Return(None)
    ELSE LET r == json_load(file)
         IN  IF r.exc = "none"
             THEN IF r.val.expires_at > now + TokenBuffer THEN r ELSE Return(None)
             ELSE IF r.exc \in Caught THEN Return(None)
             ELSE r

save_token_cache(file, token, expires_in, now, fault) ==
    json_dump_to(file, [token |-> token, expires_at |-> now + expires_in], fault)

\* Path.unlink() of a file that exists
unlink(file) == IF exists(file) THEN Missing ELSE file

\* a save that keeps the default workspace of the session it replaces when
\* it is given none
save_cookie_KeepsWorkspace(file, cookie, workspace_id, now, fault) ==
    json_dump_to(file,
        [cookie |-> cookie,
         workspace_id |-> IF workspace_id = "" /\ file.kind = "json"
                          THEN file.val.workspace_id ELSE workspace_id,
         saved_at |-> now], fault)

save_cookie(file, cookie, workspace_id, now, fault) ==
    json_dump_to(file, [cookie |-> cookie, workspace_id |-> workspace_id,
                        saved_at |-> now], fault)

get_cookie(file) ==
    IF ~exists(file) THEN Return(None)
    ELSE LET r == json_load(file)
         IN  IF r.exc = "none" THEN r
             ELSE IF r.exc \in Caught THEN Return(None)
             ELSE r

(***************************************************************************)
(* One call of the store on a directory in any condition: every document   *)
(* is missing, complete, truncated or undecodable when the call starts,    *)
(* and a write may stop at any point.                                      *)
(***************************************************************************)
hist == <<lastNonEmpty, lastAssigned>>

LoadConfig ==
    LET r == load_config(cfgfile)
    IN  /\ ret' = [op |-> "load_config", exc |-> r.exc, result |-> r.val]
        /\ UNCHANGED <<resfile, clock, hist, docVars, procVars, jobVars>>

SaveConfig(config, fault) ==
    LET w == save_config(cfgfile, config, fault)
    IN  /\ cfgfile' = w.file
        /\ ret' = [op |-> "save_config", config |-> config, exc |-> w.exc]
        /\ UNCHANGED <<resfile, clock, hist, cookiefile, tokenfile, procVars, jobVars>>

GetTokenCache ==
    LET now == clock + 1
        r == get_token_cache(tokenfile, now)
        timed == exists(tokenfile) /\ json_load(tokenfile).exc = "none"
    IN  /\ now <= MaxTime
        /\ clock' = IF timed THEN now ELSE clock
        /\ ret' = [op |-> "get_token_cache", exc |-> r.exc, result |-> r.val]
        /\ UNCHANGED <<resfile, hist, docVars, procVars, jobVars>>

SaveTokenCache(token, expires_in, fault) ==
    LET now == clock + 1
        w == save_token_cache(tokenfile, token, expires_in, now, fault)
    IN  /\ now <= MaxTime
        /\ clock' = now
        /\ tokenfile' = w.file
        /\ ret' = [op |-> "save_token_cache", token |-> token,
                   expires_in |-> expires_in, exc |-> w.exc]
        /\ UNCHANGED <<resfile, hist, cfgfile, cookiefile, procVars, jobVars>>

ClearTokenCache ==
    /\ tokenfile' = unlink(tokenfile)
    /\ ret' = [op |-> "clear_token_cache", exc |-> "none"]
    /\ UNCHANGED <<resfile, clock, hist, cfgfile, cookiefile, procVars, jobVars>>

SaveCookie(cookie, workspace_id, fault) ==
    LET now == clock + 1
        w == save_cookie(cookiefile, cookie, workspace_id, now, fault)
    IN  /\ now <= MaxTime
        /\ clock' = now
        /\ cookiefile' = w.file
        /\ ret' = [op |-> "save_cookie", cookie |-> cookie,
                   workspace_id |-> workspace_id, exc |-> w.exc]
        /\ UNCHANGED <<resfile, hist, cfgfile, tokenfile, procVars, jobVars>>

GetCookie ==
    LET r == get_cookie(cookiefile)
    IN  /\ ret' = [op |-> "get_cookie", exc |-> r.exc, result |-> r.val]
        /\ UNCHANGED <<resfile, clock, hist, docVars, procVars, jobVars>>

ClearCookie ==
    /\ cookiefile' = unlink(cookiefile)
    /\ ret' = [op |-> "clear_cookie", exc |-> "none"]
    /\ UNCHANGED <<resfile, clock, hist, cfgfile, tokenfile, procVars, jobVars>>

LoadAllResources ==
    LET r == load_all_resources(resfile)
    IN  /\ ret' = [op |-> "load_all_resources", exc |-> r.exc, result |-> r.val]
        /\ UNCHANGED <<resfile, clock, hist, docVars, procVars, jobVars>>

ConfigInputs ==
    { [x \in {} |-> ""],
      DEFAULT_CONFIG,
      [username |-> "u", password |-> "p"],
      [DEFAULT_CONFIG EXCEPT !.username = "u", !.token_cache_enabled = FALSE] }
Cookies == {"c1", "c2"}
CookieWorkspaces == {"", "ws-1"}
ExpiresIn == {300, 600}

Broken == {Missing, Truncated, Undecodable}

DocsInit ==
    /\ cfgfile \in Broken \cup {JsonFile(c) : c \in ConfigInputs}
    /\ cookiefile \in Broken \cup
           {JsonFile([cookie |-> "c0", workspace_id |-> "ws-2", saved_at |-> 1])}
    /\ tokenfile \in Broken \cup
           {JsonFile([token |-> "t0", expires_at |-> 1 + e]) : e \in ExpiresIn}
    /\ resfile \in Broken \cup
           {JsonFile(save_resources(EmptyDict, w, r, <<"a">>, 1)) :
                w \in WsIds, r \in ResourceInputs}
    /\ clock = 1
    /\ ret = NoCall
    /\ lastNonEmpty = [w \in WsIds |-> <<>>]
    /\ lastAssigned = [w \in WsIds |-> <<>>]
    /\ Idle
    /\ store = EmptyDict

\* no call has been made yet
Fresh == ret = NoCall

DocsNext ==
    \/ Fresh /\ LoadConfig
    \/ Fresh /\ \E c \in ConfigInputs, f \in Faults : SaveConfig(c, f)
    \/ Fresh /\ GetTokenCache
    \/ Fresh /\ \E e \in ExpiresIn, f \in Faults : SaveTokenCache("t1", e, f)
    \/ Fresh /\ ClearTokenCache
    \/ Fresh /\ \E c \in Cookies, w \in CookieWorkspaces, f \in Faults :
                    SaveCookie(c, w, f)
    \/ Fresh /\ GetCookie
    \/ Fresh /\ ClearCookie
    \/ Fresh /\ LoadAllResources
    \/ Fresh /\ \E w \in WsIds : GetWorkspaceResources(w)
    \/ Fresh /\ \E w \in WsIds, r \in ResourceInputs, n \in AliasInputs, f \in Faults :
                    SaveResources(w, r, n, f)
    \/ Fresh /\ \E w \in WsIds, n \in AliasInputs, f \in Faults :
                    SetWorkspaceName(w, n, f)

SpecDocs == DocsInit /\ [][DocsNext]_vars

(***************************************************************************)
(* Claims about writing and loading the documents                          *)
(***************************************************************************)

\* C5: a save_resources or set_workspace_name whose write fails (an I/O error
\* or a crash between opening the file and the end of the dump) on a
\* well-formed resource cache leaves the file exactly as it was before the
\* call, so that a later load returns what a load before the call returned.
C5_FailedWriteLeavesCache ==
    [][(/\ ret'.op \in {"save_resources", "set_workspace_name"}
        /\ ret'.exc # "none"
        /\ resfile.kind = "json")
          => /\ resfile' = resfile
             /\ load_all_resources(resfile') = load_all_resources(resfile)]_vars

\* the records of a list, and the records a dict comprehension keeps of it
RecordsOf(l) == {l[i] : i \in DOMAIN l}
LastRecordsOf(l) == {l[LastIndex(l, l[i].id)] : i \in DOMAIN l}

\* what the cookie document and the cached entry give back after a save
CookieRoundTrip ==
    (ret.op = "save_cookie" /\ ret.exc = "none") =>
        LET g == get_cookie(cookiefile)
        IN  /\ g.exc = "none"
            /\ g.val # None
            /\ g.val.cookie = ret.cookie
            /\ g.val.workspace_id = ret.workspace_id

\* C8 as stated: loading right after saving gives back what was saved:
\* load_config() = c after save_config(c) for every c, get_cookie() carries
\* the cookie and workspace of save_cookie, get_workspace_resources(ws)
\* carries exactly the records of r after save_resources(ws, r, name).
C8_RoundTripIsIdentity ==
    /\ (ret.op = "save_config" /\ ret.exc = "none") =>
           load_config(cfgfile) = Return(ret.config)
    /\ CookieRoundTrip
    /\ (ret.op = "save_resources" /\ ret.exc = "none") =>
           LET g == get_workspace_resources(resfile, ret.ws)
           IN  /\ g.exc = "none"
               /\ g.val.found
               /\ \A c \in Categories :
                      Values(g.val.entry[c]) = RecordsOf(ResGet(ret.resources, c))

\* C8 as amended: load_config() after save_config(c) is c laid over the
\* defaults (every key of c with c's value, every other default key with its
\* default), hence c itself when c has every default key; get_cookie()
\* carries the cookie and workspace saved; get_workspace_resources(ws) after
\* save_resources(ws, r, name) carries, per category, the records of r, of
\* those sharing an id the last one.
C8_RoundTripOverDefaults ==
    /\ (ret.op = "save_config" /\ ret.exc = "none") =>
           LET g == load_config(cfgfile)
               c == ret.config
           IN  /\ g.exc = "none"
               /\ DOMAIN g.val = DOMAIN c \cup DOMAIN DEFAULT_CONFIG
               /\ \A key \in DOMAIN c : g.val[key] = c[key]
               /\ \A key \in DOMAIN DEFAULT_CONFIG \ DOMAIN c :
                      g.val[key] = DEFAULT_CONFIG[key]
               /\ DOMAIN DEFAULT_CONFIG \subseteq DOMAIN c => g.val = c
    /\ CookieRoundTrip
    /\ (ret.op = "save_resources" /\ ret.exc = "none") =>
           LET g == get_workspace_resources(resfile, ret.ws)
           IN  /\ g.exc = "none"
               /\ g.val.found
               /\ \A c \in Categories :
                      Values(g.val.entry[c]) = LastRecordsOf(ResGet(ret.resources, c))

\* a config that omits default keys was saved over another document and
\* loads back with its own values
C8_Witness ==
    /\ ret.op = "save_config"
    /\ ret.exc = "none"
    /\ ~(DOMAIN DEFAULT_CONFIG \subseteq DOMAIN ret.config)
    /\ DOMAIN ret.config # {}
    /\ load_config(cfgfile).val.username = "u"

\* C9: loading a missing, truncated or corrupt document does not raise and
\* gives the default: load_config the default config, get_cookie and
\* get_token_cache none, load_all_resources the empty mapping.
C9_BrokenDocumentLoadsDefault ==
    /\ (ret.op = "load_config" /\ cfgfile \in Broken) =>
           (ret.exc = "none" /\ ret.result = DEFAULT_CONFIG)
    /\ (ret.op = "get_cookie" /\ cookiefile \in Broken) =>
           (ret.exc = "none" /\ ret.result = None)
    /\ (ret.op = "get_token_cache" /\ tokenfile \in Broken) =>
           (ret.exc = "none" /\ ret.result = None)
    /\ (ret.op = "load_all_resources" /\ resfile \in Broken) =>
           (ret.exc = "none" /\ ret.result = EmptyDict)

(***************************************************************************)
(* Two CLI invocations, each running the load-modify-write of one call on  *)
(* its own workspace.  The steps of an invocation are the file operations  *)
(* of the call: the read of load_all_resources, the open(.., "w") that     *)
(* truncates the file, and the close that ends the dump.                   *)
(***************************************************************************)
Procs == {1, 2}
Other(p) == 3 - p
WsOf(p) == IF p = 1 THEN "ws-1" ELSE "ws-2"

RaceCalls(p) ==
    {[op |-> "save_resources", ws |-> WsOf(p), resources |-> r, name |-> n] :
         r \in ResourceInputs, n \in AliasInputs}
    \cup {[op |-> "set_workspace_name", ws |-> WsOf(p), name |-> n] :
              n \in AliasInputs}

\* whether the call reads time.time() after its load
ReadsTime(c, all_resources) ==
    c.op = "save_resources" \/ ~HasKey(all_resources, c.ws)

\* the dict the call dumps, given the dict it loaded
Modified(c, all_resources, now) ==
    IF c.op = "save_resources"
    THEN save_resources(all_resources, c.ws, c.resources, c.name, now)
    ELSE set_workspace_name(all_resources, c.ws, c.name, now)

\* all_resources = load_all_resources(), then the update in memory
RaceLoad(p) ==
    /\ pc[p] = "idle"
    /\ \E c \in RaceCalls(p) :
           LET ld == load_all_resources(resfile)
               now == IF ReadsTime(c, ld.val) THEN clock + 1 ELSE clock
           IN  /\ now <= MaxTime
               /\ clock' = now
               /\ call' = [call EXCEPT ![p] = c]
               /\ local' = [local EXCEPT ![p] = Modified(c, ld.val, now)]
    /\ pc' = [pc EXCEPT ![p] = "loaded"]
    /\ overlapped' = (overlapped \/ pc[Other(p)] \in {"loaded", "opened"})
    /\ UNCHANGED <<resfile, ret, hist, docVars, jobVars>>

\* open(RESOURCES_FILE, "w")
RaceOpen(p) ==
    /\ pc[p] = "loaded"
    /\ resfile' = Truncated
    /\ pc' = [pc EXCEPT ![p] = "opened"]
    /\ UNCHANGED <<clock, ret, hist, docVars, local, call, overlapped, jobVars>>

\* json.dump(all_resources, f) and the close of the with block: the text is
\* written from offset 0; over a text the other invocation wrote since the
\* open it leaves either its own text or, when that is the shorter one, its
\* text followed by the rest of the other
RaceDump(p) ==
    /\ pc[p] = "opened"
    /\ \/ resfile' = JsonFile(local[p])
       \/ resfile.kind = "json" /\ resfile' = Truncated
    /\ pc' = [pc EXCEPT ![p] = "done"]
    /\ UNCHANGED <<clock, ret, hist, docVars, local, call, overlapped, jobVars>>

RaceInit ==
    /\ resfile \in {Missing} \cup
           {JsonFile(save_resources(EmptyDict, w, r, <<"a">>, 1)) :
                w \in WsIds, r \in ResourceInputs}
    /\ cfgfile = Missing
    /\ cookiefile = Missing
    /\ tokenfile = Missing
    /\ clock = 1
    /\ ret = NoCall
    /\ lastNonEmpty = [w \in WsIds |-> <<>>]
    /\ lastAssigned = [w \in WsIds |-> <<>>]
    /\ Idle
    /\ store = EmptyDict

RaceNext == \E p \in Procs : RaceLoad(p) \/ RaceOpen(p) \/ RaceDump(p)

SpecRace == RaceInit /\ [][RaceNext]_vars

\* the update of invocation p is in the cache file
UpdatePresent(p) ==
    /\ resfile.kind = "json"
    /\ \E i \in DOMAIN resfile.val :
           LET e == resfile.val[i].v
               c == call[p]
           IN  /\ resfile.val[i].k = c.ws
               /\ e.id = c.ws
               /\ (c.op = "set_workspace_name" \/ Truthy(c.name)) => e.name = c.name
               /\ c.op = "save_resources" =>
                      \A cat \in Categories :
                          Values(e[cat]) = LastRecordsOf(ResGet(c.resources, cat))

BothDone == \A p \in Procs : pc[p] = "done"

\* C10: when the two invocations run one after the other, both updates are
\* in the final resource cache ...
C10_SequentialKeepsBothUpdates ==
    (BothDone /\ ~overlapped) => \A p \in Procs : UpdatePresent(p)

\* ... and an interleaving is reachable that ends with a well-formed cache
\* holding the update of one invocation and not that of the other
C10_Witness ==
    /\ BothDone
    /\ overlapped
    /\ resfile.kind = "json"
    /\ UpdatePresent(2)
    /\ ~UpdatePresent(1)
    /\ ~HasKey(resfile.val, "ws-1")

(***************************************************************************)
(* The commands (cli.py).  In the commands every identifier, name and      *)
(* message is a str, hence a sequence of one-character strings, so that    *)
(* str.startswith and the substring test `in` are computed.  The API       *)
(* gateway and the display are collaborators outside the program: a        *)
(* gateway call ends as the oracle oc of the invocation says, and the      *)
(* lines handed to the display are collected in msgs.                      *)
(***************************************************************************)
Ws1 == <<"w", "s", "-", "1">>
Ws2 == <<"w", "s", "-", "2">>
Lcg1 == <<"l", "c", "g", "-", "1">>
Lcg2 == <<"l", "c", "g", "-", "2">>
CmdWsIds == {Ws1, Ws2}
LcgIds == {Lcg1, Lcg2}

\* JSON null / Python None where a str is expected: kept apart from every str
\* by its one element, which is no character
PyNone == <<"None">>

\* bool(x) of a str or None
Falsy(x) == x = <<>> \/ x = PyNone

\* a prefix test that takes every token for a name
startswith_Never(s, prefix) == FALSE

\* str.startswith
startswith(s, prefix) ==
    Len(s) >= Len(prefix) /\ SubSeq(s, 1, Len(prefix)) = prefix

\* the outcome of a gateway call that raises QzAPIError: val is str(e)
ApiError(text) == [exc |-> "QzAPIError", val |-> text]

\* the two characters of the expiry message the commands look for
Guo == "guo"
Qi == "qi"

\* "401" in str(e) or "过期" in str(e)
IsExpired(text) ==
    Contains(<<"4", "0", "1">>, text) \/ Contains(<<Guo, Qi>>, text)

\* the texts str(e) of the API errors of the gateway
Text401 == <<"H", "T", "T", "P", " ", "4", "0", "1">>
TextExpiry == <<"c", "o", "o", "k", "i", "e", " ", Guo, Qi>>
Text500 == <<"H", "T", "T", "P", " ", "5", "0", "0">>
ErrorTexts == {Text401, TextExpiry, Text500}

\* the lines a command hands to the display: print_error, print_warning and
\* the prints that tell the user the result; kind names the line, about the
\* item it is about and text the str(e) it carries
Line(level, kind, about, text) ==
    [level |-> level, kind |-> kind, about |-> about, text |-> text]
Error(kind) == Line("error", kind, <<>>, <<>>)
ErrorOf(kind, about, text) == Line("error", kind, about, text)
Warning(kind, about, text) == Line("warning", kind, about, text)
Info(kind) == Line("print", kind, <<>>, <<>>)

\* one gateway call of a command: the function, the item it asks about, the
\* cookie it sends and how it ended (val: what it returned, or str(e))
GatewayCall(api, item, cookie, r) ==
    [api |-> api, item |-> item, cookie |-> cookie, exc |-> r.exc, val |-> r.val]

\* a command that is still running, and what it becomes: a return (exc is
\* "none", exit the value returned) or an exception that leaves the handler
Started ==
    [exc |-> "none", exit |-> -1, calls |-> <<>>, lookups |-> <<>>,
     msgs |-> <<>>, out |-> <<>>, interrupted |-> FALSE]
Say(run, line) == [run EXCEPT !.msgs = Append(@, line)]
Called(run, c) == [run EXCEPT !.calls = Append(@, c)]
Looked(run, fn, name) ==
    [run EXCEPT !.lookups = Append(@, [fn |-> fn, name |-> name])]
Returns(run, code) == [run EXCEPT !.exit = code]
Raises(run, exc) ==
    [run EXCEPT !.exc = exc, !.interrupted = @ \/ exc = "KeyboardInterrupt"]
Interrupted(run) == [run EXCEPT !.interrupted = TRUE]
Ended(run) == run.exit # -1 \/ run.exc # "none"

\* a main() that takes an interrupt for any other exception
main_NoInterruptCode(run) ==
    IF run.exc = "none" THEN run
    ELSE [Say(run, ErrorOf("exception", <<>>, <<run.exc>>)) EXCEPT !.exit = 1]

\* main(): the value of the handler is the exit code, a KeyboardInterrupt
\* that leaves the handler gives 130, any other exception an error line and 1
main(run) ==
    IF run.exc = "none" THEN run
    ELSE IF run.exc = "KeyboardInterrupt"
    THEN [Say(run, Info("cancelled")) EXCEPT !.exit = 130]
    ELSE [Say(run, ErrorOf("exception", <<>>, <<run.exc>>)) EXCEPT !.exit = 1]

\* a test that is content with the key
HasCookie_KeyOnly(cookie_data) == "cookie" \in DOMAIN cookie_data

\* "cookie" in cookie_data and cookie_data["cookie"], of what get_cookie gave
HasCookie(cookie_data) ==
    "cookie" \in DOMAIN cookie_data /\ cookie_data.cookie # ""

\* cookie_data.get("workspace_id", "")
DefaultWorkspace(cookie_data) ==
    IF "workspace_id" \in DOMAIN cookie_data THEN cookie_data.workspace_id
    ELSE <<>>

(***************************************************************************)
(* ls -c: the job list of one or of every cached workspace, from the API   *)
(***************************************************************************)
SrcApiCookie == <<"a", "p", "i", "_", "c", "o", "o", "k", "i", "e">>
SrcWorkspaceSync == <<"w", "o", "r", "k", "s", "p", "a", "c", "e", "_", "s", "y", "n", "c">>
JobRunning == <<"j", "o", "b", "_", "r", "u", "n", "n", "i", "n", "g">>
JobQueuing == <<"j", "o", "b", "_", "q", "u", "e", "u", "i", "n", "g">>
JobSucceeded == <<"j", "o", "b", "_", "s", "u", "c", "c", "e", "e", "d", "e", "d">>
JobFailed == <<"j", "o", "b", "_", "f", "a", "i", "l", "e", "d">>
JobStopped == <<"j", "o", "b", "_", "s", "t", "o", "p", "p", "e", "d">>

\* JobRecord(job_id=...): the fields of a record, those not given empty;
\* created_at is a time (0: none) and workspace_name the entry of metadata
JobRecord(job_id) ==
    [job_id |-> job_id, name |-> <<>>, status |-> <<>>, source |-> <<>>,
     workspace_id |-> <<>>, project_name |-> <<>>, created_at |-> 0,
     workspace_name |-> <<>>]

\* the fields of a JobRecord a gateway payload can carry
PayloadFields == {"name", "status", "workspace_id", "project_name", "created_at"}

\* JobRecord.from_api_response(job_data, source): field by field, a missing
\* key leaves the field empty
from_api_response(job_data, source) ==
    LET job == JobRecord(job_data.job_id)
    IN  [f \in DOMAIN job |->
            IF f = "source" THEN source
            ELSE IF f \in PayloadFields /\ f \in DOMAIN job_data THEN job_data[f]
            ELSE job[f]]

\* the jobs of one page as records, tagged with the name of the workspace
RECURSIVE PageJobs(_, _)
PageJobs(jobs_data, ws_name) ==
    IF jobs_data = <<>> THEN <<>>
    ELSE LET job == from_api_response(Head(jobs_data), SrcApiCookie)
         IN  <<IF Truthy(ws_name) THEN [job EXCEPT !.workspace_name = ws_name]
                ELSE job>> \o PageJobs(Tail(jobs_data), ws_name)

\* ws_resources.get("name", "") if ws_resources else default
CachedName(got, default) == IF got.found THEN got.entry.name ELSE default

\* [(ws_id, data.get("name", "")) for ws_id, data in all_resources.items()]
AllWorkspaces(all_resources) ==
    [i \in DOMAIN all_resources |->
        [id |-> all_resources[i].k, name |-> all_resources[i].v.name]]

\* the workspaces ls -c asks about: [run, workspace_ids]
ListCookieWorkspaces(args, cookie_data, file, run) ==
    IF args.all_ws
    THEN LET ld == load_all_resources(file)
         IN  IF ld.exc # "none"
             THEN [run |-> Raises(run, ld.exc), workspace_ids |-> <<>>]
             ELSE IF ld.val = EmptyDict
             THEN [run |-> Returns(Say(run, Error("no_cached_workspace")), 1),
                   workspace_ids |-> <<>>]
             ELSE [run |-> run, workspace_ids |-> AllWorkspaces(ld.val)]
    ELSE IF Truthy(args.workspace)
    THEN IF startswith(args.workspace, <<"w", "s", "-">>)
         THEN LET got == get_workspace_resources(file, args.workspace)
              IN  IF got.exc # "none"
                  THEN [run |-> Raises(run, got.exc), workspace_ids |-> <<>>]
                  ELSE [run |-> run,
                        workspace_ids |->
                            <<[id |-> args.workspace,
                               name |-> CachedName(got.val, <<>>)]>>]
         ELSE LET f == find_workspace_by_name(file, args.workspace)
                  looked == Looked(run, "find_workspace_by_name", args.workspace)
              IN  IF f.exc # "none"
                  THEN [run |-> Raises(looked, f.exc), workspace_ids |-> <<>>]
                  ELSE IF ~f.val.found \/ ~Truthy(f.val.id)
                  THEN [run |-> Returns(Say(looked,
                                    ErrorOf("workspace_not_found",
                                            args.workspace, <<>>)), 1),
                        workspace_ids |-> <<>>]
                  ELSE LET got == get_workspace_resources(file, f.val.id)
                       IN  [run |-> looked,
                            workspace_ids |->
                                <<[id |-> f.val.id,
                                   name |-> CachedName(got.val, args.workspace)]>>]
    ELSE LET default_ws == DefaultWorkspace(cookie_data)
         IN  IF Falsy(default_ws)
             THEN [run |-> Returns(Say(run, Error("no_workspace")), 1),
                   workspace_ids |-> <<>>]
             ELSE LET got == get_workspace_resources(file, default_ws)
                  IN  IF got.exc # "none"
                      THEN [run |-> Raises(run, got.exc), workspace_ids |-> <<>>]
                      ELSE [run |-> run,
                            workspace_ids |->
                                <<[id |-> default_ws,
                                   name |-> CachedName(got.val, <<>>)]>>]

\* a loop that gives up on its first failure, whatever the failure
RECURSIVE ListCookieLoop_StopOnFailure(_, _, _, _, _)
ListCookieLoop_StopOnFailure(workspace_ids, i, cookie, oc, run) ==
    IF i > Len(workspace_ids) THEN run
    ELSE LET workspace_id == workspace_ids[i].id
             r == oc[workspace_id]
             called == Called(run, GatewayCall("list_jobs_with_cookie",
                                               workspace_id, cookie, r))
         IN  IF r.exc = "none"
             THEN ListCookieLoop_StopOnFailure(workspace_ids, i + 1, cookie, oc,
                      [called EXCEPT !.out = @ \o PageJobs(r.val.jobs,
                                                          workspace_ids[i].name)])
             ELSE IF r.exc = "QzAPIError"
             THEN Returns(Say(called, Error("cookie_expired")), 1)
             ELSE Raises(called, r.exc)

\* for workspace_id, ws_name in workspace_ids: the jobs of the page go to
\* all_jobs (run.out); an expired cookie ends the command, any other API
\* error is a warning
RECURSIVE ListCookieLoop(_, _, _, _, _)
ListCookieLoop(workspace_ids, i, cookie, oc, run) ==
    IF i > Len(workspace_ids) THEN run
    ELSE LET workspace_id == workspace_ids[i].id
             ws_name == workspace_ids[i].name
             r == oc[workspace_id]
             called == Called(run, GatewayCall("list_jobs_with_cookie",
                                               workspace_id, cookie, r))
         IN  IF r.exc = "none"
             THEN ListCookieLoop(workspace_ids, i + 1, cookie, oc,
                      [called EXCEPT !.out = @ \o PageJobs(r.val.jobs, ws_name)])
             ELSE IF r.exc = "QzAPIError"
             THEN IF IsExpired(r.val)
                  THEN Returns(Say(called, Error("cookie_expired")), 1)
                  ELSE ListCookieLoop(workspace_ids, i + 1, cookie, oc,
                           Say(called, Warning("fetch_failed", workspace_id, r.val)))
             ELSE Raises(called, r.exc)

\* list.sort(key=lambda x: x.created_at or "", reverse=True): stable, the
\* later created first
RECURSIVE InsertByCreated(_, _)
InsertByCreated(sorted, job) ==
    IF sorted = <<>> THEN <<job>>
    ELSE IF Head(sorted).created_at >= job.created_at
         THEN <<Head(sorted)>> \o InsertByCreated(Tail(sorted), job)
         ELSE <<job>> \o sorted

RECURSIVE SortByCreated(_)
SortByCreated(jobs) ==
    IF jobs = <<>> THEN <<>>
    ELSE InsertByCreated(SortByCreated(SubSeq(jobs, 1, Len(jobs) - 1)),
                         jobs[Len(jobs)])

\* args.status.lower() in j.status.lower()
StatusMatches(job, status) == Contains(lower(status), lower(job.status))

\* the test of --running
active_statuses ==
    {JobRunning, JobQueuing,
     <<"j", "o", "b", "_", "p", "e", "n", "d", "i", "n", "g">>,
     <<"r", "u", "n", "n", "i", "n", "g">>,
     <<"q", "u", "e", "u", "i", "n", "g">>,
     <<"p", "e", "n", "d", "i", "n", "g">>}
IsActive(job) ==
    \/ lower(job.status) \in active_statuses
    \/ Contains(<<"r", "u", "n", "n", "i", "n", "g">>, lower(job.status))
    \/ Contains(<<"q", "u", "e", "u", "e">>, lower(job.status))

\* all_jobs[:limit]
Take(jobs, limit) ==
    IF limit <= 0 THEN <<>>
    ELSE SubSeq(jobs, 1, IF limit < Len(jobs) THEN limit ELSE Len(jobs))

\* a display that truncates to the limit before it filters
ListCookieShown_TruncateFirst(all_jobs, args) ==
    LET sorted == Take(SortByCreated(all_jobs), args.limit)
        by_status == IF Truthy(args.status)
                     THEN SelectSeq(sorted, LAMBDA j : StatusMatches(j, args.status))
                     ELSE sorted
    IN  IF args.running THEN SelectSeq(by_status, IsActive) ELSE by_status

\* the jobs ls -c shows, of the jobs it collected
ListCookieShown(all_jobs, args) ==
    LET sorted == SortByCreated(all_jobs)
        by_status == IF Truthy(args.status)
                     THEN SelectSeq(sorted, LAMBDA j : StatusMatches(j, args.status))
                     ELSE sorted
        running == IF args.running THEN SelectSeq(by_status, IsActive)
                   ELSE by_status
    IN  Take(running, args.limit)

\* what ls -c leaves: the jobs it collected and the jobs it displayed
ListCookieOut(run, shown) ==
    [run EXCEPT !.out = [all_jobs |-> run.out, shown |-> shown]]

cmd_list_cookie(args, cookiefile_, file, oc) ==
    LET Report(looped, shown) ==
            IF Ended(looped) THEN ListCookieOut(looped, <<>>)
            ELSE IF looped.out = <<>>
            THEN ListCookieOut(Returns(Say(looped, Info("no_jobs")), 0), <<>>)
            ELSE IF shown = <<>>
            THEN ListCookieOut(Returns(Say(looped, Info("no_matching_jobs")), 0),
                               <<>>)
            ELSE ListCookieOut(Returns(Say(looped, Info("jobs_table")), 0), shown)
        Sorted(looped) == Report(looped, ListCookieShown(looped.out, args))
        Ask(cookie, w) ==
            IF Ended(w.run) THEN ListCookieOut(w.run, <<>>)
            ELSE Sorted(ListCookieLoop(w.workspace_ids, 1, cookie, oc, w.run))
        Run(gc) ==
            IF gc.exc # "none" THEN ListCookieOut(Raises(Started, gc.exc), <<>>)
            ELSE IF ~HasCookie(gc.val)
            THEN ListCookieOut(Returns(Say(Started, Error("no_cookie")), 1), <<>>)
            ELSE Ask(gc.val.cookie,
                     ListCookieWorkspaces(args, gc.val, file, Started))
    IN  Run(get_cookie(cookiefile_))

(***************************************************************************)
(* res: the cached resources of a workspace, refreshed from the API on     *)
(* request.  The command may write the resource cache: its result is the   *)
(* run together with the file and the clock it leaves.                     *)
(***************************************************************************)
Left(run, file, now) == [run |-> run, resfile |-> file, clock |-> now]

\* res --list
ListCachedWorkspaces(file, now) ==
    LET ld == load_all_resources(file)
    IN  IF ld.exc # "none" THEN Left(Raises(Started, ld.exc), file, now)
        ELSE IF ld.val = EmptyDict
        THEN Left(Returns(Say(Started, Info("no_cached_workspace")), 0), file, now)
        ELSE Left(Returns(Say(Started, Info("cached_workspaces")), 0), file, now)

\* res -w <workspace> --name <name>, without -u
NameWorkspace(args, file, now, fault) ==
    IF ~Truthy(args.workspace)
    THEN Left(Returns(Say(Started, Error("no_workspace")), 1), file, now)
    ELSE LET ld == load_all_resources(file)
             t == IF HasKey(ld.val, args.workspace) THEN now ELSE now + 1
             w == json_dump_to(file,
                      set_workspace_name(ld.val, args.workspace, args.name, t),
                      fault)
         IN  IF ld.exc # "none" THEN Left(Raises(Started, ld.exc), file, now)
             ELSE IF w.exc # "none" THEN Left(Raises(Started, w.exc), w.file, t)
             ELSE Left(Returns(Say(Started, Info("name_set")), 0), w.file, t)

\* the workspace res is about: [run, workspace_id]
ResWorkspace(args, cookie_data, file, run) ==
    IF ~Truthy(args.workspace)
    THEN [run |-> run, workspace_id |-> DefaultWorkspace(cookie_data)]
    ELSE IF startswith(args.workspace, <<"w", "s", "-">>)
    THEN [run |-> run, workspace_id |-> args.workspace]
    ELSE LET f == find_workspace_by_name(file, args.workspace)
             looked == Looked(run, "find_workspace_by_name", args.workspace)
         IN  IF f.exc # "none"
             THEN [run |-> Raises(looked, f.exc), workspace_id |-> <<>>]
             ELSE IF ~f.val.found \/ ~Truthy(f.val.id)
             THEN [run |-> Returns(Say(looked,
                               ErrorOf("workspace_not_found",
                                       args.workspace, <<>>)), 1),
                   workspace_id |-> <<>>]
             ELSE [run |-> looked, workspace_id |-> f.val.id]

\* the report of an API error in res and ws
ReportApiError(run, about, text) ==
    IF IsExpired(text) THEN Say(run, Error("cookie_expired"))
    ELSE Say(run, ErrorOf("fetch_failed", about, text))

\* a refresh that saves what it extracted from a job list without jobs
RefreshResources_SaveEmpty(args, cookie_data, workspace_id, got, file, now, oc, fault, run) ==
    IF ~HasCookie(cookie_data)
    THEN Left(Returns(Say(run, Error("no_cookie")), 1), file, now)
    ELSE LET r == oc[workspace_id]
             called == Called(run, GatewayCall("list_jobs_with_cookie",
                                               workspace_id, cookie_data.cookie, r))
             ws_name == IF Truthy(args.name) THEN args.name
                        ELSE CachedName(got, <<>>)
             ld == load_all_resources(file)
             w == json_dump_to(file,
                      save_resources(ld.val, workspace_id, r.val.resources,
                                     ws_name, now + 1),
                      fault)
         IN  IF r.exc = "QzAPIError"
             THEN Left(Returns(ReportApiError(called, workspace_id, r.val), 1),
                       file, now)
             ELSE IF r.exc # "none" THEN Left(Raises(called, r.exc), file, now)
             ELSE IF w.exc # "none"
             THEN Left(Raises(called, w.exc), w.file, now + 1)
             ELSE Left(Returns(Say(Say(called, Info("resources_saved")),
                                   Info("resources")), 0),
                       w.file, now + 1)

\* the else branch of res: the resources are extracted from the job list of
\* the workspace and saved
RefreshResources(args, cookie_data, workspace_id, got, file, now, oc, fault, run) ==
    IF ~HasCookie(cookie_data)
    THEN Left(Returns(Say(run, Error("no_cookie")), 1), file, now)
    ELSE LET r == oc[workspace_id]
             called == Called(run, GatewayCall("list_jobs_with_cookie",
                                               workspace_id, cookie_data.cookie, r))
             ws_name == IF Truthy(args.name) THEN args.name
                        ELSE CachedName(got, <<>>)
             ld == load_all_resources(file)
             w == json_dump_to(file,
                      save_resources(ld.val, workspace_id, r.val.resources,
                                     ws_name, now + 1),
                      fault)
         IN  IF r.exc = "QzAPIError"
             THEN Left(Returns(ReportApiError(called, workspace_id, r.val), 1),
                       file, now)
             ELSE IF r.exc # "none" THEN Left(Raises(called, r.exc), file, now)
             ELSE IF r.val.jobs = <<>>
             THEN Left(Returns(Say(called, Info("no_jobs")), 0), file, now)
             ELSE IF w.exc # "none"
             THEN Left(Raises(called, w.exc), w.file, now + 1)
             ELSE Left(Returns(Say(Say(called, Info("resources_saved")),
                                   Info("resources")), 0),
                       w.file, now + 1)

cmd_workspaces(args, cookiefile_, file, now, oc, fault) ==
    IF args.list THEN ListCachedWorkspaces(file, now)
    ELSE IF Truthy(args.name) /\ ~args.update
    THEN NameWorkspace(args, file, now, fault)
    ELSE LET gc == get_cookie(cookiefile_)
             w == ResWorkspace(args, gc.val, file, Started)
             got == get_workspace_resources(file, w.workspace_id)
         IN  IF gc.exc # "none" THEN Left(Raises(Started, gc.exc), file, now)
             ELSE IF Ended(w.run) THEN Left(w.run, file, now)
             ELSE IF Falsy(w.workspace_id)
             THEN Left(Returns(Say(w.run, Error("no_workspace")), 1), file, now)
             ELSE IF got.exc # "none" THEN Left(Raises(w.run, got.exc), file, now)
             ELSE IF got.val.found /\ ~args.update
             THEN Left(Returns(Say(w.run, Info("resources")), 0), file, now)
             ELSE RefreshResources(args, gc.val, w.workspace_id, got.val,
                                   file, now, oc, fault, w.run)

(***************************************************************************)
(* avail: the free nodes of the compute groups of one or of every cached   *)
(* workspace                                                               *)
(***************************************************************************)
\* the workspaces avail asks about: [run, workspace_ids]
AvailWorkspaces(args, file, run) ==
    IF ~Truthy(args.workspace)
    THEN LET ld == load_all_resources(file)
         IN  IF ld.exc # "none"
             THEN [run |-> Raises(run, ld.exc), workspace_ids |-> <<>>]
             ELSE IF ld.val = EmptyDict
             THEN [run |-> Returns(Say(run, Error("no_cached_workspace")), 1),
                   workspace_ids |-> <<>>]
             ELSE [run |-> run,
                   workspace_ids |-> [i \in DOMAIN ld.val |-> ld.val[i].k]]
    ELSE IF startswith(args.workspace, <<"w", "s", "-">>)
    THEN [run |-> run, workspace_ids |-> <<args.workspace>>]
    ELSE LET f == find_workspace_by_name(file, args.workspace)
             looked == Looked(run, "find_workspace_by_name", args.workspace)
         IN  IF f.exc # "none"
             THEN [run |-> Raises(looked, f.exc), workspace_ids |-> <<>>]
             ELSE IF ~f.val.found \/ ~Truthy(f.val.id)
             THEN [run |-> Returns(Say(looked,
                               ErrorOf("workspace_not_found",
                                       args.workspace, <<>>)), 1),
                   workspace_ids |-> <<>>]
             ELSE [run |-> looked, workspace_ids |-> <<f.val.id>>]

\* the compute groups of a cached workspace that pass --group:
\* [run, compute_groups]
AvailGroups(args, file, workspace_id, entry, run) ==
    LET compute_groups == CategoryMap(entry, "compute_groups")
    IN  IF ~Truthy(args.group)
        THEN [run |-> run, compute_groups |-> compute_groups]
        ELSE IF startswith(args.group, <<"l", "c", "g", "-">>)
        THEN [run |-> run,
              compute_groups |->
                  IF HasKey(compute_groups, args.group)
                  THEN Put(EmptyDict, args.group, Get(compute_groups, args.group))
                  ELSE EmptyDict]
        ELSE LET f == find_resource_by_name(file, workspace_id,
                                            "compute_groups", args.group)
                 looked == Looked(run, "find_resource_by_name", args.group)
             IN  [run |-> looked,
                  compute_groups |->
                      IF f.exc = "none" /\ f.val.found
                      THEN Put(EmptyDict, f.val.record.id, f.val.record)
                      ELSE EmptyDict]

\* the nodes of a page with no GPU in use
FreeNodes(nodes) ==
    SelectSeq(nodes, LAMBDA node : node.used = 0 /\ node.total > 0)

\* the entry all_results gets for a compute group
AvailResult(workspace_id, ws_name, lcg, entry, nodes) ==
    [workspace_id |-> workspace_id,
     workspace_name |-> ws_name,
     id |-> lcg.k,
     name |-> IF "name" \in DOMAIN lcg.v THEN lcg.v.name ELSE lcg.k,
     total_nodes |-> Len(nodes),
     free_nodes |-> Len(FreeNodes(nodes)),
     specs |-> CategoryMap(entry, "specs")]

\* for lcg_id, lcg_info in compute_groups.items(): the inner handler takes
\* every QzAPIError, so none reaches the handler around the loop
RECURSIVE AvailGroupLoop(_, _, _, _, _, _, _, _)
AvailGroupLoop(compute_groups, i, workspace_id, ws_name, entry, cookie, oc, run) ==
    IF i > Len(compute_groups) THEN run
    ELSE LET lcg == compute_groups[i]
             r == oc[<<workspace_id, lcg.k>>]
             called == Called(run, GatewayCall("list_node_dimension",
                                               <<workspace_id, lcg.k>>, cookie, r))
         IN  IF r.exc = "none"
             THEN AvailGroupLoop(compute_groups, i + 1, workspace_id, ws_name,
                      entry, cookie, oc,
                      [called EXCEPT !.out =
                          Append(@, AvailResult(workspace_id, ws_name, lcg,
                                                entry, r.val.node_dimensions))])
             ELSE IF r.exc = "QzAPIError"
             THEN AvailGroupLoop(compute_groups, i + 1, workspace_id, ws_name,
                      entry, cookie, oc,
                      Say(called, Warning("query_failed",
                                          <<workspace_id, lcg.k>>, r.val)))
             ELSE Raises(called, r.exc)

\* for workspace_id in workspace_ids
RECURSIVE AvailLoop(_, _, _, _, _, _, _)
AvailLoop(workspace_ids, i, args, file, cookie, oc, run) ==
    IF i > Len(workspace_ids) \/ Ended(run) THEN run
    ELSE LET workspace_id == workspace_ids[i]
             Groups(entry, g) ==
                 IF g.compute_groups = EmptyDict
                 THEN AvailLoop(workspace_ids, i + 1, args, file, cookie, oc, g.run)
                 ELSE AvailLoop(workspace_ids, i + 1, args, file, cookie, oc,
                          AvailGroupLoop(g.compute_groups, 1, workspace_id,
                                         IF Truthy(entry.name) THEN entry.name
                                         ELSE workspace_id,
                                         entry, cookie, oc, g.run))
             Entry(got) ==
                 IF got.exc # "none" THEN Raises(run, got.exc)
                 ELSE IF ~got.val.found
                 THEN AvailLoop(workspace_ids, i + 1, args, file, cookie, oc,
                          Say(run, Warning("not_cached", workspace_id, <<>>)))
                 ELSE Groups(got.val.entry,
                             AvailGroups(args, file, workspace_id, got.val.entry, run))
         IN  Entry(get_workspace_resources(file, workspace_id))

\* all_results.sort(key=lambda x: x["free_nodes"], reverse=True): stable
RECURSIVE InsertByFree(_, _)
InsertByFree(sorted, r) ==
    IF sorted = <<>> THEN <<r>>
    ELSE IF Head(sorted).free_nodes >= r.free_nodes
         THEN <<Head(sorted)>> \o InsertByFree(Tail(sorted), r)
         ELSE <<r>> \o sorted

RECURSIVE SortByFree(_)
SortByFree(results) ==
    IF results = <<>> THEN <<>>
    ELSE InsertByFree(SortByFree(SubSeq(results, 1, Len(results) - 1)),
                      results[Len(results)])

\* a recommendation in the order the groups were queried
Available_Unsorted(all_results, required_nodes) ==
    SelectSeq(all_results, LAMBDA r : r.free_nodes >= required_nodes)

\* [r for r in all_results if r["free_nodes"] >= required_nodes], sorted
Available(all_results, required_nodes) ==
    SelectSeq(SortByFree(all_results),
              LAMBDA r : r.free_nodes >= required_nodes)

\* what avail leaves: the results it collected and the groups it recommends
AvailOut(run, available) ==
    [run EXCEPT !.out = [all_results |-> run.out, available |-> available]]

cmd_avail(args, cookiefile_, file, oc) ==
    LET Ask(cookie, w) ==
            LET Report(looped, available) ==
                    IF Ended(looped) THEN AvailOut(looped, <<>>)
                    ELSE IF looped.out = <<>>
                    THEN AvailOut(Returns(Say(looped, Error("no_node_information")), 1),
                                  <<>>)
                    ELSE IF args.nodes # 0
                    THEN IF available = <<>>
                         THEN AvailOut(Returns(Say(looped, Info("not_enough_nodes")), 1),
                                       <<>>)
                         ELSE AvailOut(Returns(Say(looped, Info("recommendation")), 0),
                                       available)
                    ELSE AvailOut(Returns(Say(looped, Info("free_nodes")), 0), <<>>)
                Sorted(looped) == Report(looped, Available(looped.out, args.nodes))
            IN  IF Ended(w.run) THEN AvailOut(w.run, <<>>)
                ELSE Sorted(AvailLoop(w.workspace_ids, 1, args, file, cookie, oc, w.run))
        Run(gc) ==
            IF gc.exc # "none" THEN AvailOut(Raises(Started, gc.exc), <<>>)
            ELSE IF ~HasCookie(gc.val)
            THEN AvailOut(Returns(Say(Started, Error("no_cookie")), 1), <<>>)
            ELSE Ask(gc.val.cookie, AvailWorkspaces(args, file, Started))
    IN  Run(get_cookie(cookiefile_))

(***************************************************************************)
(* The job store (store.py), one record per job_id                         *)
(***************************************************************************)
\* store.get_job(job_id): the record, if any
get_job(s, job_id) ==
    IF HasKey(s, job_id) THEN [found |-> TRUE, job |-> Get(s, job_id)]
    ELSE [found |-> FALSE]

\* whether a field of an incoming record was given a value
Given(job, f) == IF f = "created_at" THEN job[f] # 0 ELSE job[f] # <<>>

\* store.add(job): upsert by job_id; on a record that exists only the fields
\* the incoming record gives are overwritten
add(s, job) ==
    IF HasKey(s, job.job_id)
    THEN LET old == Get(s, job.job_id)
         IN  Put(s, job.job_id,
                 [f \in DOMAIN old |-> IF Given(job, f) THEN job[f] ELSE old[f]])
    ELSE Put(s, job.job_id, job)

\* store.add_job(job)
add_job(s, job) == add(s, job)

\* store.update_from_api(job_id, api_payload): the fields of the payload are
\* merged into the record, which is created if absent
update_from_api(s, job_id, api_payload) ==
    LET old == IF HasKey(s, job_id) THEN Get(s, job_id) ELSE JobRecord(job_id)
    IN  Put(s, job_id,
            [f \in DOMAIN old |->
                IF f \in PayloadFields /\ f \in DOMAIN api_payload
                THEN api_payload[f] ELSE old[f]])

\* store.update(job_id, status=...)
update_status(s, job_id, status) ==
    IF HasKey(s, job_id)
    THEN Put(s, job_id, [Get(s, job_id) EXCEPT !.status = status])
    ELSE s

\* store.list(limit, status): by created_at, the latest first; limit 0 and
\* status "" stand for an argument that is not given
list(s, limit, status) ==
    LET sorted == SortByCreated([i \in DOMAIN s |-> s[i].v])
        filtered == IF Truthy(status)
                    THEN SelectSeq(sorted, LAMBDA j : StatusMatches(j, status))
                    ELSE sorted
    IN  IF limit = 0 THEN filtered ELSE Take(filtered, limit)

(***************************************************************************)
(* ws: the tasks running in a workspace, synced to the job store on        *)
(* request                                                                 *)
(***************************************************************************)
\* task.get(key, default)
TaskGet(task, key, default) ==
    IF key \in DOMAIN task THEN task[key] ELSE default

Unknown == <<"U", "N", "K", "N", "O", "W", "N">>

\* the JobRecord ws --sync creates for a task
SyncedJob(task, workspace_id) ==
    [JobRecord(TaskGet(task, "id", <<>>)) EXCEPT
        !.name = TaskGet(task, "name", <<>>),
        !.status = lower(TaskGet(task, "status", Unknown)),
        !.source = SrcWorkspaceSync,
        !.workspace_id = workspace_id,
        !.project_name = TaskGet(task, "project", <<>>)]

\* a sync that adds every task of the page
RECURSIVE SyncTasks_NoLookup(_, _, _, _)
SyncTasks_NoLookup(tasks, i, workspace_id, acc) ==
    IF i > Len(tasks) THEN acc
    ELSE SyncTasks_NoLookup(tasks, i + 1, workspace_id,
             [store |-> add_job(acc.store, SyncedJob(tasks[i], workspace_id)),
              synced_count |-> acc.synced_count + 1])

\* for task in tasks: a task whose id the store does not hold is added
RECURSIVE SyncTasks(_, _, _, _)
SyncTasks(tasks, i, workspace_id, acc) ==
    IF i > Len(tasks) THEN acc
    ELSE LET job_id == TaskGet(tasks[i], "id", <<>>)
         IN  IF Truthy(job_id) /\ ~get_job(acc.store, job_id).found
             THEN SyncTasks(tasks, i + 1, workspace_id,
                      [store |-> add_job(acc.store,
                                         SyncedJob(tasks[i], workspace_id)),
                       synced_count |-> acc.synced_count + 1])
             ELSE SyncTasks(tasks, i + 1, workspace_id, acc)

\* a command that may write the job store: the run and the store it leaves
LeftStore(run, s) == [run |-> run, store |-> s]

\* ws without a workspace: the workspaces of the account are listed
ChooseWorkspace(cookie, oc, s) ==
    LET r == oc.list_workspaces
        called == Called(Started, GatewayCall("list_workspaces", <<>>, cookie, r))
    IN  IF r.exc = "none"
        THEN IF r.val # <<>>
             THEN LeftStore(Returns(Say(called, Info("choose_workspace")), 1), s)
             ELSE LeftStore(Returns(Say(called, Error("no_workspace_found")), 1), s)
        ELSE IF r.exc = "QzAPIError"
        THEN LeftStore(Returns(Say(called, ErrorOf("list_failed", <<>>, r.val)), 1), s)
        ELSE LeftStore(Raises(called, r.exc), s)

cmd_workspace(args, cookiefile_, oc, s) ==
    LET gc == get_cookie(cookiefile_)
        workspace_id == IF Truthy(args.workspace) THEN args.workspace
                        ELSE DefaultWorkspace(gc.val)
        r == oc.tasks
        called == Called(Started, GatewayCall("list_workspace_tasks",
                                              workspace_id, gc.val.cookie, r))
        tasks == r.val.task_dimensions
        synced == IF args.sync
                  THEN SyncTasks(tasks, 1, workspace_id,
                                 [store |-> s, synced_count |-> 0])
                  ELSE [store |-> s, synced_count |-> 0]
        counted == [called EXCEPT !.out = [synced_count |-> synced.synced_count]]
    IN  IF gc.exc # "none" THEN LeftStore(Raises(Started, gc.exc), s)
        ELSE IF ~HasCookie(gc.val)
        THEN LeftStore(Returns(Say(Started, Error("no_cookie")), 1), s)
        ELSE IF Falsy(workspace_id) THEN ChooseWorkspace(gc.val.cookie, oc, s)
        ELSE IF r.exc = "QzAPIError"
        THEN LeftStore(Returns(ReportApiError(called, workspace_id, r.val), 1), s)
        ELSE IF r.exc # "none" THEN LeftStore(Raises(called, r.exc), s)
        ELSE IF tasks = <<>>
        THEN LeftStore(Returns(Say(called, Info("no_tasks")), 0), s)
        ELSE LeftStore(
                 Returns(Say(IF synced.synced_count > 0
                             THEN Say(counted, Info("synced"))
                             ELSE counted,
                             Info("tasks")), 0),
                 synced.store)

(***************************************************************************)
(* ls, status, stop, track and import: the commands on the job store       *)
(***************************************************************************)
\* j.status not in ("job_succeeded", "job_failed", "job_stopped")
NonTerminal(job) == job.status \notin {JobSucceeded, JobFailed, JobStopped}

\* [j.job_id for j in jobs if <test>]
IdsOf(jobs) == [i \in DOMAIN jobs |-> jobs[i].job_id]

\* a merge that passes every entry to the store, marked or not
RECURSIVE MergeDetails_IgnoreMarker(_, _, _, _)
MergeDetails_IgnoreMarker(job_ids, i, results, s) ==
    IF i > Len(job_ids) THEN s
    ELSE MergeDetails_IgnoreMarker(job_ids, i + 1, results,
             update_from_api(s, job_ids[i], results[job_ids[i]]))

\* for job_id, data in results.items(): an entry without the "error" marker
\* is merged into the store; results holds the entries in the order asked
RECURSIVE MergeDetails(_, _, _, _)
MergeDetails(job_ids, i, results, s) ==
    IF i > Len(job_ids) THEN s
    ELSE LET data == results[job_ids[i]]
         IN  MergeDetails(job_ids, i + 1, results,
                 IF "error" \notin DOMAIN data
                 THEN update_from_api(s, job_ids[i], data) ELSE s)

\* the number of entries of results without the "error" marker
Updated(job_ids, results) ==
    Cardinality({i \in DOMAIN job_ids : "error" \notin DOMAIN results[job_ids[i]]})

\* try: results = api.get_jobs_detail(job_ids) ...; on_error is the line the
\* handler of QzAPIError prints, if it prints one
RefreshJobs(job_ids, oc, s, run, on_error) ==
    LET r == oc.details
        called == Called(run, GatewayCall("get_jobs_detail", job_ids, <<>>, r))
    IN  IF job_ids = <<>> THEN LeftStore(run, s)
        ELSE IF r.exc = "none"
        THEN LeftStore([called EXCEPT !.out = Updated(job_ids, r.val)],
                       MergeDetails(job_ids, 1, r.val, s))
        ELSE IF r.exc = "QzAPIError"
        THEN LeftStore(IF on_error = "" THEN called
                       ELSE Say(called, Warning(on_error, job_ids, r.val)), s)
        ELSE LeftStore(Raises(called, r.exc), s)

\* ls without -c
cmd_list(args, oc, s) ==
    LET fetch_limit == IF args.running THEN args.limit * 3 ELSE args.limit
        jobs == list(s, fetch_limit, args.status)
        refreshed == IF args.no_refresh THEN LeftStore(Started, s)
                     ELSE RefreshJobs(IdsOf(SelectSeq(jobs, NonTerminal)), oc, s,
                                      Started, "refresh_failed")
        listed == list(refreshed.store, fetch_limit, args.status)
        shown == IF args.running
                 THEN Take(SelectSeq(listed, IsActive), args.limit)
                 ELSE listed
        done == [refreshed.run EXCEPT !.out = shown]
    IN  IF jobs = <<>> THEN LeftStore(Returns(Say(Started, Info("no_jobs")), 0), s)
        ELSE IF Ended(refreshed.run) THEN refreshed
        ELSE IF args.running /\ shown = <<>>
        THEN LeftStore(Returns(Say(done, Info("no_running_jobs")), 0),
                       refreshed.store)
        ELSE LeftStore(Returns(Say(done, Info("jobs_table")), 0), refreshed.store)

\* status <job_id>
cmd_status(args, oc, s) ==
    LET r == oc.detail
        called == Called(Started, GatewayCall("get_job_detail", args.job_id, <<>>, r))
    IN  IF r.exc = "none"
        THEN LeftStore(Returns(Say(called, Info("job_detail")), 0),
                       update_from_api(s, args.job_id, r.val))
        ELSE IF r.exc = "QzAPIError"
        THEN LeftStore(Returns(Say(called, ErrorOf("query_failed", args.job_id,
                                                   r.val)), 1), s)
        ELSE LeftStore(Raises(called, r.exc), s)

\* str.strip(), of blanks
RECURSIVE lstrip(_)
lstrip(s) == IF s # <<>> /\ Head(s) = " " THEN lstrip(Tail(s)) ELSE s
RECURSIVE rstrip(_)
rstrip(s) ==
    IF s # <<>> /\ s[Len(s)] = " " THEN rstrip(SubSeq(s, 1, Len(s) - 1)) ELSE s
strip(s) == rstrip(lstrip(s))

\* a stop that marks the record stopped whatever stop_job answers
cmd_stop_Optimistic(args, reply, oc, s) ==
    LET r == oc.stop
        called == Called(Started, GatewayCall("stop_job", args.job_id, <<>>, r))
        marked == update_status(s, args.job_id, JobStopped)
    IN  IF ~args.yes /\ reply.exc # "none" THEN LeftStore(Raises(Started, reply.exc), s)
        ELSE IF ~args.yes /\ lower(strip(reply.val)) # <<"y">>
        THEN LeftStore(Returns(Say(Started, Info("cancelled")), 0), s)
        ELSE IF r.exc = "none"
        THEN IF r.val
             THEN LeftStore(Returns(Say(called, Info("stopped")), 0), marked)
             ELSE LeftStore(Returns(Say(called, ErrorOf("stop_failed", args.job_id,
                                                        <<>>)), 1), marked)
        ELSE IF r.exc = "QzAPIError"
        THEN LeftStore(Returns(Say(called, ErrorOf("stop_failed", args.job_id,
                                                   r.val)), 1), marked)
        ELSE LeftStore(Raises(called, r.exc), s)

\* stop <job_id>; reply is what input() gives at the confirmation
cmd_stop(args, reply, oc, s) ==
    LET r == oc.stop
        called == Called(Started, GatewayCall("stop_job", args.job_id, <<>>, r))
    IN  IF ~args.yes /\ reply.exc # "none" THEN LeftStore(Raises(Started, reply.exc), s)
        ELSE IF ~args.yes /\ lower(strip(reply.val)) # <<"y">>
        THEN LeftStore(Returns(Say(Started, Info("cancelled")), 0), s)
        ELSE IF r.exc = "none"
        THEN IF r.val
             THEN LeftStore(Returns(Say(called, Info("stopped")), 0),
                            update_status(s, args.job_id, JobStopped))
             ELSE LeftStore(Returns(Say(called, ErrorOf("stop_failed", args.job_id,
                                                        <<>>)), 1), s)
        ELSE IF r.exc = "QzAPIError"
        THEN LeftStore(Returns(Say(called, ErrorOf("stop_failed", args.job_id,
                                                   r.val)), 1), s)
        ELSE LeftStore(Raises(called, r.exc), s)

\* the payload api.get_job_detail(job_id) returns: the detail of that job
DetailOf(job_id, data) ==
    [f \in DOMAIN data \cup {"job_id"} |-> IF f = "job_id" THEN job_id ELSE data[f]]

\* if args.<field>: job.<field> = args.<field>
Override(job, f, value) == IF Truthy(value) THEN [job EXCEPT ![f] = value] ELSE job

\* track <job_id>: a record from the detail of the job, or a minimal record
\* when the API fails
cmd_track(args, oc, s) ==
    LET r == oc.detail
        called == Called(Started, GatewayCall("get_job_detail", args.job_id, <<>>, r))
        fetched == IF r.exc = "none"
                   THEN from_api_response(DetailOf(args.job_id, r.val), args.source)
                   ELSE [JobRecord(args.job_id) EXCEPT
                            !.name = args.name, !.source = args.source,
                            !.workspace_id = args.workspace]
        job == Override(Override(Override(fetched, "name", args.name),
                                 "source", args.source),
                        "workspace_id", args.workspace)
    IN  IF r.exc \notin {"none", "QzAPIError"} THEN LeftStore(Raises(called, r.exc), s)
        ELSE LeftStore(Returns(IF args.quiet THEN called
                               ELSE Say(called, Info("tracked")), 0),
                       add(s, job))

StatusUnknown == <<"u", "n", "k", "n", "o", "w", "n">>

\* store.import_from_file(path, source): a minimal record for every id of
\* the file the store does not hold; the count of the ids read
RECURSIVE import_from_file(_, _, _)
import_from_file(s, job_ids, source) ==
    IF job_ids = <<>> THEN s
    ELSE LET before == import_from_file(s, SubSeq(job_ids, 1, Len(job_ids) - 1),
                                        source)
             job_id == job_ids[Len(job_ids)]
         IN  IF HasKey(before, job_id) THEN before
             ELSE Put(before, job_id,
                      [JobRecord(job_id) EXCEPT !.status = StatusUnknown,
                                                !.source = source])

\* job_ids[:50]
MaxRefresh == 50

\* import <file> [--refresh]; file is what the path holds: whether it exists
\* and the job ids of its lines
cmd_import(args, file, oc, s) ==
    LET imported == import_from_file(s, file.job_ids, args.source)
        count == Len(file.job_ids)
        said == Say(Started, Info("imported"))
        jobs == list(imported, 0, <<>>)
        job_ids == IdsOf(SelectSeq(jobs,
                       LAMBDA j : ~Truthy(j.status) \/ j.status = StatusUnknown))
        refreshed == RefreshJobs(Take(job_ids, MaxRefresh), oc, imported, said,
                                 "refresh_failed")
    IN  IF ~file.exists
        THEN LeftStore(Returns(Say(Started, ErrorOf("no_such_file", <<>>, <<>>)), 1), s)
        ELSE IF ~(args.refresh /\ count > 0) THEN LeftStore(Returns(said, 0), imported)
        ELSE IF Ended(refreshed.run) THEN refreshed
        ELSE LeftStore(Returns(IF refreshed.run.calls # <<>>
                                  /\ refreshed.run.calls[1].exc = "none"
                               THEN Say(refreshed.run, Info("refreshed"))
                               ELSE refreshed.run, 0),
                       refreshed.store)

(***************************************************************************)
(* watch: the refresh cycle of the polling loop, and login                 *)
(***************************************************************************)
\* sum(1 for j in jobs if ...) over jobs = store.list(limit=args.limit)
ActiveCount(s, limit) == Len(SelectSeq(list(s, limit, <<>>), NonTerminal))

\* one pass of the body of while True: the non-terminal jobs are refreshed
\* from the API (a QzAPIError is passed over), the table is displayed and
\* the loop breaks or sleeps.  phase tells where the loop is after the pass.
watch_cycle(args, oc, s, run) ==
    LET active_jobs == SelectSeq(list(s, 0, <<>>), NonTerminal)
        refreshed == RefreshJobs(IdsOf(active_jobs), oc, s, run, "")
        shown == Say(refreshed.run, Info("jobs_table"))
    IN  IF refreshed.run.exc = "KeyboardInterrupt"
        THEN [run |-> Returns(Say([refreshed.run EXCEPT !.exc = "none"],
                                  Info("watch_stopped")), 0),
              store |-> s, phase |-> "interrupted"]
        ELSE IF ActiveCount(refreshed.store, args.limit) = 0 /\ ~args.keep_alive
        THEN [run |-> Returns(Say(shown, Info("all_done")), 0),
              store |-> refreshed.store, phase |-> "done"]
        ELSE [run |-> shown, store |-> refreshed.store, phase |-> "sleeping"]

\* except KeyboardInterrupt, around the loop: an interrupt of time.sleep
watch_interrupt(run) ==
    Returns(Say(Interrupted(run), Info("watch_stopped")), 0)


\* what login leaves: the run and the cookie document
LeftCookie(run, file, now) == [run |-> run, cookiefile |-> file, clock |-> now]

\* a prompt of login: the argument if given, else what input() gives
Prompted(arg, reply) == IF Truthy(arg) THEN Return(arg) ELSE reply

\* except (EOFError, KeyboardInterrupt), around a prompt of login
PromptCancelled(reply) ==
    Returns(Say(IF reply.exc = "KeyboardInterrupt" THEN Interrupted(Started)
                ELSE Started, Info("cancelled")), 1)

\* login: the cookie of a CAS login is saved with the workspace given
cmd_login(args, user_reply, pass_reply, file, now, oc, fault) ==
    LET username == Prompted(args.username, user_reply)
        password == Prompted(args.password, pass_reply)
        r == oc.login
        called == Called(Started, GatewayCall("login_with_cas", <<>>, <<>>, r))
        w == save_cookie(file, r.val, args.workspace, now + 1, fault)
    IN  IF username.exc # "none"
        THEN LeftCookie(PromptCancelled(username), file, now)
        ELSE IF ~Truthy(strip(username.val))
        THEN LeftCookie(Returns(Say(Started, Error("no_username")), 1), file, now)
        ELSE IF password.exc # "none"
        THEN LeftCookie(PromptCancelled(password), file, now)
        ELSE IF ~Truthy(password.val)
        THEN LeftCookie(Returns(Say(Started, Error("no_password")), 1), file, now)
        ELSE IF r.exc = "QzAPIError"
        THEN LeftCookie(Returns(Say(called, ErrorOf("login_failed", <<>>, r.val)), 1),
                        file, now)
        ELSE IF r.exc # "none" THEN LeftCookie(Raises(called, r.exc), file, now)
        ELSE IF w.exc # "none" THEN LeftCookie(Raises(called, w.exc), w.file, now + 1)
        ELSE LeftCookie(Returns(Say(called, Info("logged_in")), 0), w.file, now + 1)

(***************************************************************************)
(* One invocation of the CLI on a directory in any condition.  CmdInit     *)
(* draws the documents and the job store; one step runs a command from     *)
(* main() to its exit code, with the arguments, the replies at the prompts *)
(* and the outcomes of the gateway calls drawn by the step.  watch goes on *)
(* cycle by cycle.                                                         *)
(***************************************************************************)
MaxCycles == 3      \* refresh cycles of one watch

CookieDoc(cookie, workspace_id) ==
    [cookie |-> cookie, workspace_id |-> workspace_id, saved_at |-> 1]
CmdCookieFiles ==
    {Missing, Undecodable} \cup
    {JsonFile(CookieDoc(c[1], c[2])) :
         c \in {<<"", <<>>>>, <<"c0", <<>>>>, <<"c0", Ws1>>, <<"c0", PyNone>>}}

\* resources as api.extract_resources_from_jobs returns them
Spec1 == <<"s", "1">>
CmdResources ==
    [projects |-> <<>>,
     compute_groups |-> <<Rec(Lcg1, <<"A">>), Rec(Lcg2, Lcg1)>>,
     specs |-> <<Rec(Spec1, <<"a">>)>>]
OneGroup ==
    [projects |-> <<>>, compute_groups |-> <<Rec(Lcg1, <<"a">>)>>, specs |-> <<>>]

\* caches on which an alias equals or contains an id: ws-1 is named "a" and
\* ws-2 "ws-1", the compute group lcg-2 of ws-1 is named "lcg-1"; or ws-2
\* alone is cached, named "xws-1"
CmdCaches ==
    {save_resources(save_resources(EmptyDict, Ws1, CmdResources, <<"a">>, 1),
                    Ws2, OneGroup, Ws1, 1),
     save_resources(EmptyDict, Ws2, [x \in {} |-> <<>>], <<"x">> \o Ws1, 1)}
CmdResFiles == {Missing, Undecodable} \cup {JsonFile(d) : d \in CmdCaches}

\* the tokens given for a workspace and for a compute group
WorkspaceTokens == {<<>>, Ws1, Ws2, <<"a">>, <<"z">>}
GroupTokens == {<<>>, Lcg1, <<"a">>, <<"z">>}

\* job ids, and the store as a sequence of store.add leaves it
J1 == <<"j", "1">>
J2 == <<"j", "2">>
J3 == <<"j", "3">>
JobIds == {J1, J2, J3}
Job(job_id, status, created_at) ==
    [JobRecord(job_id) EXCEPT !.status = status, !.created_at = created_at]
CmdStores ==
    {EmptyDict,
     add(EmptyDict, Job(J1, JobRunning, 1)),
     add(add(EmptyDict, Job(J1, JobRunning, 1)), Job(J2, JobSucceeded, 2)),
     add(add(EmptyDict, Job(J2, StatusUnknown, 0)), Job(J3, JobFailed, 3))}

\* the directory before the command: the documents of the cookie-mode
\* commands vary, or the job store does
CmdFixtures ==
    {[cookiefile |-> c, resfile |-> r, store |-> EmptyDict] :
         c \in CmdCookieFiles, r \in CmdResFiles}
    \cup {[cookiefile |-> JsonFile(CookieDoc("c0", Ws1)), resfile |-> Missing,
           store |-> s] : s \in CmdStores}

CmdInit ==
    /\ \E f \in CmdFixtures :
           /\ cookiefile = f.cookiefile
           /\ resfile = f.resfile
           /\ store = f.store
    /\ cfgfile = Missing
    /\ tokenfile = Missing
    /\ clock = 1
    /\ ret = NoCall
    /\ lastNonEmpty = [w \in WsIds |-> <<>>]
    /\ lastAssigned = [w \in WsIds |-> <<>>]
    /\ Idle

\* what the gateway may answer.  The answers to a call are listed in a
\* sequence, an oracle picks one by its position for every call the command
\* may make.  First the failures: the API errors and an interrupt of the call
Failures ==
    <<ApiError(Text401), ApiError(TextExpiry), ApiError(Text500),
      Raise("KeyboardInterrupt")>>

\* the oracles that answer by position: the functions from the calls to the
\* positions of the answers
Choices(calls, answers) == [calls -> DOMAIN answers]

\* list_jobs_with_cookie, with what extract_resources_from_jobs makes of the
\* jobs
JobData(job_id, status, created_at, workspace_id) ==
    [job_id |-> job_id, status |-> status, created_at |-> created_at,
     workspace_id |-> workspace_id]
JobPage(jobs) == Return([jobs |-> jobs, resources |-> CmdResources])
ListOutcomes(w) ==
    <<JobPage(<<>>),
      JobPage(<<JobData(w \o J1, JobRunning, 2, w)>>),
      JobPage(<<[job_id |-> w \o J2, status |-> JobSucceeded, workspace_id |-> w],
                JobData(w \o J3, JobQueuing, 3, w)>>)>> \o Failures
ListOracle(choice) == [w \in CmdWsIds |-> ListOutcomes(w)[choice[w]]]
ListChoices == Choices(CmdWsIds, ListOutcomes(Ws1))

\* list_node_dimension
Node(used, total) == [used |-> used, total |-> total]
NodeOutcomes ==
    <<Return([node_dimensions |-> <<Node(0, 8)>>]),
      Return([node_dimensions |-> <<Node(8, 8), Node(0, 8), Node(0, 0),
                                    Node(0, 8)>>]),
      ApiError(Text401), ApiError(Text500)>>
NodeOracle(choice) == [c \in CmdWsIds \X LcgIds |-> NodeOutcomes[choice[c]]]
NodeChoices == Choices(CmdWsIds \X LcgIds, NodeOutcomes)

\* list_workspace_tasks and list_workspaces
Running == <<"R", "U", "N", "N", "I", "N", "G">>
Task(id, name, status) == [id |-> id, name |-> name, status |-> status]
TaskPage(tasks) == Return([task_dimensions |-> tasks])
TaskOutcomes ==
    <<TaskPage(<<>>),
      TaskPage(<<Task(J1, <<"a">>, Running)>>),
      TaskPage(<<Task(J1, <<"a">>, Running), Task(J2, <<"A">>, Running),
                 Task(J1, <<"A">>, Running)>>),
      TaskPage(<<[name |-> <<"a">>], Task(<<>>, <<"a">>, Running)>>)>>
    \o Failures
WorkspacesOutcomes ==
    <<Return(<<>>), Return(<<[id |-> Ws1, name |-> <<"a">>]>>)>> \o Failures
TaskOracle(choice) ==
    [tasks |-> TaskOutcomes[choice.tasks],
     list_workspaces |-> WorkspacesOutcomes[choice.list_workspaces]]
TaskChoices ==
    [tasks : DOMAIN TaskOutcomes, list_workspaces : DOMAIN WorkspacesOutcomes]

\* get_jobs_detail, get_job_detail, stop_job and login_with_cas
Details(d1, d2) == Return([j \in JobIds |-> IF j = J1 THEN d1 ELSE d2])
DetailsOutcomes ==
    <<Details([status |-> JobRunning], [status |-> JobRunning]),
      Details([status |-> JobSucceeded, created_at |-> 2],
              [status |-> JobSucceeded, created_at |-> 2]),
      Details([error |-> Text500], [error |-> Text500]),
      Details([status |-> JobSucceeded],
              [error |-> Text500, status |-> JobFailed])>> \o Failures
DetailOutcomes ==
    <<Return([status |-> JobRunning]), Return([x \in {} |-> <<>>])>> \o Failures
StopOutcomes == <<Return(TRUE), Return(FALSE)>> \o Failures
LoginOutcomes == <<Return("c1")>> \o Failures
JobOracle(choice) ==
    [details |-> DetailsOutcomes[choice.details],
     detail |-> DetailOutcomes[choice.detail],
     stop |-> StopOutcomes[choice.stop]]
JobChoices ==
    [details : DOMAIN DetailsOutcomes, detail : DOMAIN DetailOutcomes,
     stop : DOMAIN StopOutcomes]
LoginOracle(choice) == [login |-> LoginOutcomes[choice]]
LoginChoices == DOMAIN LoginOutcomes

\* what input() gives at a prompt: a line, or the exception of an interrupt
\* or of the end of the input
Replies == {Return(<<"Y", " ">>), Return(<<"n">>), Return(<<" ">>),
            Raise("KeyboardInterrupt"), Raise("EOFError")}

\* the record of a command that has run: its name and arguments, and the
\* run as main() leaves it
Ran(op, args, run) ==
    [op |-> op, args |-> args, exc |-> run.exc, exit |-> run.exit,
     calls |-> run.calls, lookups |-> run.lookups, msgs |-> run.msgs,
     out |-> run.out, interrupted |-> run.interrupted, phase |-> "exited"]

cmdFrame == <<cfgfile, tokenfile, hist, procVars>>

ListCookieArgs ==
    [workspace : WorkspaceTokens, all_ws : BOOLEAN, limit : {1, 2},
     status : {<<>>, <<"R", "u", "n">>}, running : BOOLEAN]

CmdListCookie(args, oc) ==
    /\ ret' = Ran("ls -c", args, main(cmd_list_cookie(args, cookiefile, resfile, oc)))
    /\ UNCHANGED <<cookiefile, resfile, clock, store, cmdFrame>>

ResArgs ==
    [workspace : WorkspaceTokens, list : BOOLEAN, update : BOOLEAN,
     name : {<<>>, <<"A">>}]

CmdWorkspaces(args, oc, fault) ==
    LET r == cmd_workspaces(args, cookiefile, resfile, clock, oc, fault)
    IN  /\ r.clock <= MaxTime
        /\ ret' = Ran("res", args, main(r.run))
        /\ resfile' = r.resfile
        /\ clock' = r.clock
        /\ UNCHANGED <<cookiefile, store, cmdFrame>>

AvailArgs == [workspace : WorkspaceTokens, group : GroupTokens, nodes : {0, 1, 2}]

CmdAvail(args, oc) ==
    /\ ret' = Ran("avail", args, main(cmd_avail(args, cookiefile, resfile, oc)))
    /\ UNCHANGED <<cookiefile, resfile, clock, store, cmdFrame>>

WsArgs == [workspace : {<<>>, Ws1, <<"a">>}, sync : BOOLEAN]

CmdWorkspace(args, oc) ==
    LET r == cmd_workspace(args, cookiefile, oc, store)
    IN  /\ ret' = Ran("ws", args, main(r.run))
        /\ store' = r.store
        /\ UNCHANGED <<cookiefile, resfile, clock, cmdFrame>>

ListArgs ==
    [limit : {1, 2}, status : {<<>>, <<"R", "u", "n">>}, running : BOOLEAN,
     no_refresh : BOOLEAN]

CmdList(args, oc) ==
    LET r == cmd_list(args, oc, store)
    IN  /\ ret' = Ran("ls", args, main(r.run))
        /\ store' = r.store
        /\ UNCHANGED <<cookiefile, resfile, clock, cmdFrame>>

CmdStatus(args, oc) ==
    LET r == cmd_status(args, oc, store)
    IN  /\ ret' = Ran("status", args, main(r.run))
        /\ store' = r.store
        /\ UNCHANGED <<cookiefile, resfile, clock, cmdFrame>>

CmdStop(args, reply, oc) ==
    LET r == cmd_stop(args, reply, oc, store)
    IN  /\ ret' = Ran("stop", args, main(r.run)) @@ [reply |-> reply]
        /\ store' = r.store
        /\ UNCHANGED <<cookiefile, resfile, clock, cmdFrame>>

TrackArgs ==
    [job_id : {J1, J3}, name : {<<>>, <<"a">>}, source : {<<>>},
     workspace : {<<>>, Ws1}, quiet : BOOLEAN]

CmdTrack(args, oc) ==
    LET r == cmd_track(args, oc, store)
    IN  /\ ret' = Ran("track", args, main(r.run))
        /\ store' = r.store
        /\ UNCHANGED <<cookiefile, resfile, clock, cmdFrame>>

ImportFiles ==
    {[exists |-> FALSE, job_ids |-> <<>>], [exists |-> TRUE, job_ids |-> <<>>],
     [exists |-> TRUE, job_ids |-> <<J1, J3>>]}

CmdImport(args, file, oc) ==
    LET r == cmd_import(args, file, oc, store)
    IN  /\ ret' = Ran("import", args, main(r.run))
        /\ store' = r.store
        /\ UNCHANGED <<cookiefile, resfile, clock, cmdFrame>>

LoginArgs ==
    [username : {<<>>, <<"a">>}, password : {<<>>, <<"a">>},
     workspace : {PyNone, Ws2}]

CmdLogin(args, user_reply, pass_reply, oc, fault) ==
    LET r == cmd_login(args, user_reply, pass_reply, cookiefile, clock, oc, fault)
    IN  /\ r.clock <= MaxTime
        /\ ret' = Ran("login", args, main(r.run))
        /\ cookiefile' = r.cookiefile
        /\ clock' = r.clock
        /\ UNCHANGED <<resfile, store, cmdFrame>>

WatchArgs == [limit : {1, 2}, keep_alive : BOOLEAN]

\* the record of a watch after a pass of its loop
Watching(args, r, cycles) ==
    [Ran("watch", args, main(r.run)) EXCEPT !.phase = r.phase] @@
    [cycles |-> cycles]

\* watch starts: the first pass of the loop
WatchStart(args, oc) ==
    LET r == watch_cycle(args, oc, store, Started)
    IN  /\ ret' = Watching(args, r, 1)
        /\ store' = r.store
        /\ UNCHANGED <<cookiefile, resfile, clock, cmdFrame>>

\* time.sleep(interval) returns: the next pass
WatchCycle(oc) ==
    /\ ret.op = "watch"
    /\ ret.phase = "sleeping"
    /\ ret.cycles < MaxCycles
    /\ LET r == watch_cycle(ret.args, oc, store,
                            [Started EXCEPT !.calls = ret.calls, !.msgs = ret.msgs])
       IN  /\ ret' = Watching(ret.args, r, ret.cycles + 1)
           /\ store' = r.store
    /\ UNCHANGED <<cookiefile, resfile, clock, cmdFrame>>

\* Ctrl-C during time.sleep(interval)
WatchInterrupt ==
    /\ ret.op = "watch"
    /\ ret.phase = "sleeping"
    /\ ret' = [Ran("watch", ret.args,
                   main(watch_interrupt([Started EXCEPT !.calls = ret.calls,
                                                        !.msgs = ret.msgs])))
                  EXCEPT !.phase = "interrupted"] @@ [cycles |-> ret.cycles]
    /\ UNCHANGED <<cookiefile, resfile, clock, store, cmdFrame>>

CmdNext ==
    \/ Fresh /\ \E args \in ListCookieArgs, c \in ListChoices : CmdListCookie(args, ListOracle(c))
    \/ Fresh /\ \E args \in ResArgs, c \in ListChoices, f \in {"none", "dump"} :
                    CmdWorkspaces(args, ListOracle(c), f)
    \/ Fresh /\ \E args \in AvailArgs, c \in NodeChoices : CmdAvail(args, NodeOracle(c))
    \/ Fresh /\ \E args \in WsArgs, c \in TaskChoices : CmdWorkspace(args, TaskOracle(c))
    \/ Fresh /\ \E args \in ListArgs, c \in JobChoices : CmdList(args, JobOracle(c))
    \/ Fresh /\ \E j \in {J1, J3}, c \in JobChoices :
                    CmdStatus([job_id |-> j], JobOracle(c))
    \/ Fresh /\ \E j \in {J1, J3}, y \in BOOLEAN, reply \in Replies,
                   c \in JobChoices :
                    CmdStop([job_id |-> j, yes |-> y], reply, JobOracle(c))
    \/ Fresh /\ \E args \in TrackArgs, c \in JobChoices : CmdTrack(args, JobOracle(c))
    \/ Fresh /\ \E refresh \in BOOLEAN, file \in ImportFiles, c \in JobChoices :
                    CmdImport([refresh |-> refresh, source |-> <<"f">>], file, JobOracle(c))
    \/ Fresh /\ \E args \in LoginArgs, u \in Replies, p \in Replies,
                   c \in LoginChoices, f \in {"none", "dump"} :
                    CmdLogin(args, u, p, LoginOracle(c), f)
    \/ Fresh /\ \E args \in WatchArgs, c \in JobChoices : WatchStart(args, JobOracle(c))
    \/ \E c \in JobChoices : WatchCycle(JobOracle(c))
    \/ WatchInterrupt

SpecCmd == CmdInit /\ [][CmdNext]_vars

(***************************************************************************)
(* Claims about the commands                                               *)
(***************************************************************************)

\* s begins with the characters of prefix
HasPrefix(s, prefix) == \E n \in 0..Len(s) : SubSeq(s, 1, n) = prefix
WsPrefix == <<"w", "s", "-">>
LcgPrefix == <<"l", "c", "g", "-">>

\* the command asked about one workspace, named by the token -w
OneWorkspace ==
    /\ ret.op \in {"ls -c", "res", "avail"}
    /\ Truthy(ret.args.workspace)
    /\ ret.op = "ls -c" => ~ret.args.all_ws

\* the workspace a gateway call of the command is about
CallWorkspace(c) == IF ret.op = "avail" THEN c.item[1] ELSE c.item

\* C11: in ls -c, res and avail a workspace token that starts with "ws-" and
\* a compute-group token that starts with "lcg-" is used as the ID as it is:
\* find_workspace_by_name / find_resource_by_name is not invoked for it and
\* the gateway is asked about the token itself, also when a cached alias
\* equals or contains the token; the names that are looked up are tokens
\* without the prefix.
C11_PrefixedTokenIsTheId ==
    /\ OneWorkspace /\ HasPrefix(ret.args.workspace, WsPrefix) =>
           /\ \A i \in DOMAIN ret.lookups :
                  ret.lookups[i].fn # "find_workspace_by_name"
           /\ \A i \in DOMAIN ret.calls :
                  CallWorkspace(ret.calls[i]) = ret.args.workspace
    /\ ret.op = "avail" /\ HasPrefix(ret.args.group, LcgPrefix) =>
           /\ \A i \in DOMAIN ret.lookups :
                  ret.lookups[i].fn # "find_resource_by_name"
           /\ \A i \in DOMAIN ret.calls :
                  ret.calls[i].item[2] = ret.args.group
    /\ ret.op \in {"ls -c", "res", "avail"} =>
           \A i \in DOMAIN ret.lookups :
               \/ /\ ret.lookups[i].fn = "find_workspace_by_name"
                  /\ ret.lookups[i].name = ret.args.workspace
                  /\ ~HasPrefix(ret.args.workspace, WsPrefix)
               \/ /\ ret.lookups[i].fn = "find_resource_by_name"
                  /\ ret.lookups[i].name = ret.args.group
                  /\ ~HasPrefix(ret.args.group, LcgPrefix)

\* avail -w ws-1 -g lcg-1 asked the gateway, on a cache where another
\* workspace goes by the alias "ws-1" and another compute group of ws-1 by
\* the name "lcg-1"
C11_Witness ==
    /\ ret.op = "avail"
    /\ ret.args.workspace = Ws1
    /\ ret.args.group = Lcg1
    /\ ret.calls # <<>>
    /\ find_workspace_by_name(resfile, Ws1).val.found
    /\ find_workspace_by_name(resfile, Ws1).val.id = Ws2
    /\ find_resource_by_name(resfile, Ws1, "compute_groups", Lcg1).val.record.id = Lcg2

\* the command went into its loop over the items and came out of it by
\* itself: no blocking identifier was missing and no exception left it
CookieGiven ==
    /\ get_cookie(cookiefile).exc = "none"
    /\ HasCookie(get_cookie(cookiefile).val)
LoopReached ==
    /\ ret.op \in {"ls -c", "avail"}
    /\ ret.exc = "none"
    /\ CookieGiven
    /\ \A i \in DOMAIN ret.msgs :
           ret.msgs[i].kind \notin
               {"no_cached_workspace", "workspace_not_found", "no_workspace"}

\* the workspaces of the batch: every cached workspace, or the one asked for
BatchOfAll ==
    IF ret.op = "ls -c" THEN ret.args.all_ws ELSE ~Truthy(ret.args.workspace)
CachedWorkspaceIds ==
    LET d == load_all_resources(resfile).val IN [i \in DOMAIN d |-> d[i].k]

\* the compute groups avail asks about in the workspaces ws[from..]
RECURSIVE PlannedGroups(_, _)
PlannedGroups(ws, from) ==
    IF from > Len(ws) THEN <<>>
    ELSE LET got == get_workspace_resources(resfile, ws[from]).val
             g == IF got.found
                  THEN AvailGroups(ret.args, resfile, ws[from], got.entry,
                                   Started).compute_groups
                  ELSE <<>>
         IN  [i \in DOMAIN g |-> <<ws[from], g[i].k>>] \o PlannedGroups(ws, from + 1)

\* the items of the batch, in the order of the loop
Planned ==
    IF ret.op = "ls -c"
    THEN IF BatchOfAll THEN CachedWorkspaceIds
         ELSE [i \in DOMAIN ret.calls |-> ret.calls[i].item]
    ELSE PlannedGroups(IF BatchOfAll THEN CachedWorkspaceIds
                       ELSE IF Truthy(ret.args.workspace)
                               /\ HasPrefix(ret.args.workspace, WsPrefix)
                       THEN <<ret.args.workspace>>
                       ELSE <<find_workspace_by_name(resfile,
                                  ret.args.workspace).val.id>>, 1)

Failed(c) == c.exc = "QzAPIError"
Succeeded(c) == c.exc = "none"
CallItems == [i \in DOMAIN ret.calls |-> ret.calls[i].item]

\* the warnings of the loop about failed calls, and the failed calls
FailureWarnings ==
    SelectSeq(ret.msgs, LAMBDA m : m.level = "warning"
                                   /\ m.kind \in {"fetch_failed", "query_failed"})
FailedCalls == SelectSeq(ret.calls, Failed)

\* every failed call of calls[1..n] has its warning, in the order of the calls
WarnedEach(failed) ==
    /\ Len(FailureWarnings) >= Len(failed)
    /\ \A i \in DOMAIN failed :
           /\ FailureWarnings[i].about = failed[i].item
           /\ FailureWarnings[i].text = failed[i].val

\* the items whose results are in the output, in the order of the output, and
\* the results the successful calls returned
RECURSIVE ReturnedJobs(_)
ReturnedJobs(calls) ==
    IF calls = <<>> THEN <<>>
    ELSE (IF Succeeded(Head(calls))
          THEN [i \in DOMAIN Head(calls).val.jobs |-> Head(calls).val.jobs[i].job_id]
          ELSE <<>>) \o ReturnedJobs(Tail(calls))
OutputIsOfSucceeded ==
    IF ret.op = "ls -c"
    THEN [i \in DOMAIN ret.out.all_jobs |-> ret.out.all_jobs[i].job_id]
             = ReturnedJobs(ret.calls)
    ELSE [i \in DOMAIN ret.out.all_results |->
             <<ret.out.all_results[i].workspace_id, ret.out.all_results[i].id>>]
             = [i \in DOMAIN SelectSeq(ret.calls, Succeeded) |->
                   SelectSeq(ret.calls, Succeeded)[i].item]

PlainFailure(c) == Failed(c) /\ ~IsExpired(c.val)
ExpiryFailure(c) == Failed(c) /\ IsExpired(c.val)
C13_FailsWhenEveryItemFailed ==
    (/\ ret.op \in {"ls -c", "avail"}
     /\ ret.exc = "none"
     /\ ret.calls # <<>>
     /\ \A i \in DOMAIN ret.calls : Failed(ret.calls[i]))
        => ret.exit # 0

\* C14: in ls -c, res, avail and ws an API error that carries a 401
\* indicator or an expiry message makes the command report that the cookie
\* has expired and return 1; any other API error is reported with its
\* upstream message.
C14_ExpiryIsDistinguished ==
    (ret.op \in {"ls -c", "res", "avail", "ws"} /\ ret.exc = "none") =>
        \A i \in DOMAIN ret.calls :
            /\ ExpiryFailure(ret.calls[i]) =>
                   /\ ret.exit = 1
                   /\ \E k \in DOMAIN ret.msgs :
                          /\ ret.msgs[k].level = "error"
                          /\ ret.msgs[k].kind = "cookie_expired"
            /\ PlainFailure(ret.calls[i]) =>
                   \E k \in DOMAIN ret.msgs : ret.msgs[k].text = ret.calls[i].val

\* the cookie document is there and holds a cookie that is not empty
StoredCookie ==
    /\ cookiefile.kind = "json"
    /\ "cookie" \in DOMAIN cookiefile.val
    /\ cookiefile.val.cookie # ""
CookieApis ==
    {"list_jobs_with_cookie", "list_node_dimension", "list_workspace_tasks",
     "list_workspaces"}

\* C15: ls -c, res, avail and ws issue a gateway call that takes a cookie
\* only when a cookie document with a non-empty cookie is stored, and the
\* call carries that cookie; without it ls -c, avail and ws return 1 and
\* have made no gateway call.
C15_NoCallWithoutCookie ==
    ret.op \in {"ls -c", "res", "avail", "ws"} =>
        /\ \A i \in DOMAIN ret.calls :
               ret.calls[i].api \in CookieApis =>
                   /\ StoredCookie
                   /\ ret.calls[i].cookie = cookiefile.val.cookie
        /\ (~StoredCookie /\ ret.op # "res") =>
               /\ ret.exit = 1
               /\ ret.calls = <<>>

\* ls -c, avail or ws ran on a cookie document whose cookie is empty
C15_Witness ==
    /\ ret.op \in {"ls -c", "avail", "ws"}
    /\ cookiefile.kind = "json"
    /\ cookiefile.val.cookie = ""
    /\ ret.exit = 1
    /\ ret.calls = <<>>
    /\ \E k \in DOMAIN ret.msgs : ret.msgs[k].kind = "no_cookie"

\* C16: the cookie session is one document: after save_cookie(c, w) returns,
\* get_cookie gives exactly the session {cookie: c, workspace_id: w,
\* saved_at: now}, with nothing of the session saved before (w empty leaves
\* the default workspace empty); after clear_cookie, get_cookie gives None.
C16_SingleSession ==
    /\ (ret.op = "save_cookie" /\ ret.exc = "none") =>
           get_cookie(cookiefile) =
               Return([cookie |-> ret.cookie, workspace_id |-> ret.workspace_id,
                       saved_at |-> clock])
    /\ ret.op = "clear_cookie" => get_cookie(cookiefile) = Return(None)

\* save_cookie was given no default workspace and returned
C16_Witness ==
    /\ ret.op = "save_cookie"
    /\ ret.exc = "none"
    /\ ret.workspace_id = ""
    /\ get_cookie(cookiefile).val.workspace_id = ""

\* a job of the store has a status that is not terminal
ActiveJobRemains ==
    \E i \in DOMAIN store :
        store[i].v.status \notin {JobSucceeded, JobFailed, JobStopped}

\* C17: without --keep-alive watch leaves its loop at the end of a refresh
\* cycle exactly when no job of the store has a non-terminal status; with
\* --keep-alive it does not leave the loop by itself.
C17_ExitsIffNoActiveJob ==
    ret.op = "watch" =>
        /\ (~ret.args.keep_alive /\ ret.phase = "done") => ~ActiveJobRemains
        /\ (~ret.args.keep_alive /\ ret.phase = "sleeping") => ActiveJobRemains
        /\ ret.args.keep_alive => ret.phase # "done"

\* a command of the CLI has ended
CommandEnded == ret.op # "none" /\ ret.phase # "sleeping"
ErrorReported == \E k \in DOMAIN ret.msgs : ret.msgs[k].level = "error"

\* C18 as stated: the exit code is 130 whenever an interrupt ended the
\* command, watch and the prompts of login included; it is 1 when the
\* command reported an error and 0 otherwise.
C18_InterruptGives130 ==
    CommandEnded =>
        /\ ret.exit \in {0, 1, 130}
        /\ ret.interrupted <=> ret.exit = 130
        /\ ErrorReported => ret.exit = 1
        /\ ret.exit = 0 => ret.exc = "none"

\* C18: the exit code is 130 exactly when an interrupt leaves the handler of
\* the command; watch catches the interrupt and returns 0, the prompts of
\* login catch it and return 1; the exit code is 1 when the command
\* reported an error and 0 only when it reported none and no exception left
\* the handler.
C18_UncaughtInterruptGives130 ==
    CommandEnded =>
        /\ ret.exit \in {0, 1, 130}
        /\ ret.exit = 130 <=> ret.exc = "KeyboardInterrupt"
        /\ ret.exit = 130 => ret.interrupted
        /\ (ret.interrupted /\ ret.op = "watch") =>
               (ret.exit = 0 /\ ret.phase = "interrupted")
        /\ (ret.interrupted /\ ret.op = "login" /\ ret.calls = <<>>) => ret.exit = 1
        /\ (ret.interrupted /\ ret.op # "watch"
               /\ ~(ret.op = "login" /\ ret.calls = <<>>)) => ret.exit = 130
        /\ ErrorReported => ret.exit = 1
        /\ ret.exit = 0 => (ret.exc = "none" /\ ~ErrorReported)

\* Ctrl-C ended a watch that was asleep after a cycle
C18_Witness ==
    /\ ret.op = "watch"
    /\ ret.interrupted
    /\ ret.phase = "interrupted"
    /\ ret.cycles >= 1
    /\ ret.exit = 0

\* the gateway calls of the command that failed, and the lines of the
\* command that report a failure of the gateway
GatewayFailed(c) ==
    \/ c.exc = "QzAPIError"
    \/ (c.api = "stop_job" /\ c.exc = "none" /\ c.val = FALSE)
FailureKinds ==
    {"cookie_expired", "fetch_failed", "query_failed", "refresh_failed",
     "stop_failed", "list_failed", "login_failed"}
FailureReports ==
    SelectSeq(ret.msgs, LAMBDA m : m.level \in {"error", "warning"}
                                   /\ m.kind \in FailureKinds)

\* C19: in one invocation of ls, ls -c, status, stop, track, import, watch,
\* res, avail or ws a gateway call that failed is not issued again for the
\* same item, and every failure of a gateway call is reported by exactly one
\* error or warning.
C19_FailureReportedOnceNoRetry ==
    (/\ ret.op \in {"ls", "ls -c", "status", "stop", "track", "import",
                    "watch", "res", "avail", "ws"}
     /\ ret.exc = "none") =>
        /\ \A i \in DOMAIN ret.calls : \A j \in DOMAIN ret.calls :
               (i < j /\ GatewayFailed(ret.calls[i])) =>
                   ~(/\ ret.calls[j].api = ret.calls[i].api
                     /\ ret.calls[j].item = ret.calls[i].item)
        /\ Len(FailureReports) = Len(SelectSeq(ret.calls, GatewayFailed))

(***************************************************************************)
(* Any number of runs of ws, one after the other, on the same job store    *)
(***************************************************************************)
SyncNext ==
    \E args \in WsArgs, c \in TaskChoices : CmdWorkspace(args, TaskOracle(c))

SpecSync == CmdInit /\ [][SyncNext]_vars

\* no two records of the store have the same job_id
OneRecordPerJob(s) ==
    \A i \in DOMAIN s : \A j \in DOMAIN s : s[i].k = s[j].k => i = j

\* the run listed the tasks of the workspace
TasksListed(r) == \E k \in DOMAIN r.msgs : r.msgs[k].kind = "tasks"

\* what a run of ws does to the store
SyncStep ==
    /\ OneRecordPerJob(store) /\ OneRecordPerJob(store')
    /\ Len(store') >= Len(store)
    /\ \A i \in DOMAIN store : store'[i] = store[i]
    /\ \A i \in DOMAIN store' :
           i > Len(store) =>
               /\ ret'.args.sync
               /\ \A j \in DOMAIN store : store[j].k # store'[i].k
               /\ \E t \in DOMAIN ret'.calls[1].val.task_dimensions :
                      /\ "id" \in DOMAIN ret'.calls[1].val.task_dimensions[t]
                      /\ ret'.calls[1].val.task_dimensions[t].id = store'[i].k
    /\ TasksListed(ret') =>
           ret'.out.synced_count = Len(store') - Len(store)
    /\ ~TasksListed(ret') => store' = store

StoredConfig == JsonFile([DEFAULT_CONFIG EXCEPT !.username = "u"])
StoredSession == JsonFile([cookie |-> "c0", workspace_id |-> "ws-2", saved_at |-> 0])
StoredToken == JsonFile([token |-> "t0", expires_at |-> 600])

FrameInit ==
    /\ resfile = Missing
    /\ cfgfile \in {Missing, StoredConfig}
    /\ cookiefile \in {Missing, StoredSession}
    /\ tokenfile = StoredToken
    /\ clock = 0
    /\ ret = NoCall
    /\ lastNonEmpty = [w \in WsIds |-> <<>>]
    /\ lastAssigned = [w \in WsIds |-> <<>>]
    /\ Idle
    /\ store = EmptyDict

SpecFrame == FrameInit /\ [][Next]_vars

Confirms(line) ==
    \E i \in DOMAIN line :
        /\ line[i] \in {"y", "Y"}
        /\ \A j \in DOMAIN line \ {i} : line[j] = " "

\* the stop_job calls of a run that returned true, returned false or raised
\* an API error
StopCalls(r) == {i \in DOMAIN r.calls : r.calls[i].api = "stop_job"}
StopReturned(r, answer) ==
    \E i \in StopCalls(r) : r.calls[i].exc = "none" /\ r.calls[i].val = answer
StopRaised(r) == \E i \in StopCalls(r) : r.calls[i].exc = "QzAPIError"

\* s with the status of the record of job_id, if there is one, job_stopped
MarkedStopped(s, job_id) ==
    [i \in DOMAIN s |->
        IF s[i].k = job_id
        THEN [k |-> job_id, v |-> [s[i].v EXCEPT !.status = JobStopped]]
        ELSE s[i]]

\* C22: stop changes the job store only after stop_job returned true, and
\* then only the status of the record of the job, to "job_stopped"; when the
\* user declines at the confirmation no gateway call is made, the command
\* returns 0 and the store is unchanged; when stop_job returns false or
\* raises an API error the store is unchanged and the command returns 1.
C22_StoppedOnlyAfterGatewayStopped ==
    [][ret'.op = "stop" =>
          /\ StopReturned(ret', TRUE) =>
                 /\ store' = MarkedStopped(store, ret'.args.job_id)
                 /\ ret'.exit = 0
          /\ ~StopReturned(ret', TRUE) => store' = store
          /\ (/\ ~ret'.args.yes
              /\ ret'.reply.exc = "none"
              /\ ~Confirms(ret'.reply.val)) =>
                 /\ ret'.calls = <<>>
                 /\ ret'.exit = 0
                 /\ store' = store
          /\ (StopReturned(ret', FALSE) \/ StopRaised(ret')) =>
                 /\ store' = store
                 /\ ret'.exit = 1]_vars

\* stop has marked a running job of the store stopped after the user
\* confirmed with "Y " and stop_job returned true
C22_Witness ==
    /\ ret.op = "stop"
    /\ ~ret.args.yes
    /\ ret.reply.exc = "none"
    /\ Confirms(ret.reply.val)
    /\ StopReturned(ret, TRUE)
    /\ HasKey(store, ret.args.job_id)
    /\ Get(store, ret.args.job_id).status = JobStopped
    /\ ret.exit = 0

\* the get_jobs_detail calls a step has added to the calls of the command
CallsBefore == IF ret.op = "none" THEN 0 ELSE Len(ret.calls)
NewDetailCalls ==
    {i \in DOMAIN ret'.calls :
        i > CallsBefore /\ ret'.calls[i].api = "get_jobs_detail"}

TerminalStatuses == {JobSucceeded, JobFailed, JobStopped}

\* the record of a job when the refresh starts: the stored one, or for
\* import the minimal record the import has just made
RecordBefore(job_id) ==
    IF HasKey(store, job_id) THEN Get(store, job_id)
    ELSE [JobRecord(job_id) EXCEPT !.status = StatusUnknown,
                                   !.source = ret'.args.source]

\* C23: in ls (refresh), watch and import --refresh the record of a job
\* whose entry of the get_jobs_detail result carries the "error" marker is
\* left as it was, the record of a job whose entry does not carry it takes
\* the fields of the entry and keeps its other fields, and the jobs ls and
\* watch send to the gateway are stored jobs whose status is none of
\* job_succeeded, job_failed, job_stopped.
C23_MarkedEntriesNeverMerged ==
    [][ret'.op \in {"ls", "watch", "import"} =>
          \A i \in NewDetailCalls :
              LET c == ret'.calls[i]
              IN  /\ ret'.op \in {"ls", "watch"} =>
                         \A k \in DOMAIN c.item :
                             /\ HasKey(store, c.item[k])
                             /\ Get(store, c.item[k]).status \notin TerminalStatuses
                  /\ c.exc = "none" =>
                         \A k \in DOMAIN c.item :
                             LET job_id == c.item[k]
                                 data == c.val[job_id]
                                 before == RecordBefore(job_id)
                                 after == Get(store', job_id)
                             IN  /\ HasKey(store', job_id)
                                 /\ IF "error" \in DOMAIN data
                                    THEN after = before
                                    ELSE \A f \in DOMAIN before :
                                             after[f] = IF f \in DOMAIN data
                                                        THEN data[f]
                                                        ELSE before[f]]_vars

\* a refresh has got a result in which the entry of one job of the store
\* carries the marker together with a status, and the job has kept its status
C23_Witness ==
    /\ ret.op \in {"ls", "watch", "import"}
    /\ \E i \in DOMAIN ret.calls :
           LET c == ret.calls[i]
           IN  /\ c.api = "get_jobs_detail"
               /\ c.exc = "none"
               /\ \E k \in DOMAIN c.item :
                      /\ "error" \in DOMAIN c.val[c.item[k]]
                      /\ "status" \in DOMAIN c.val[c.item[k]]
                      /\ HasKey(store, c.item[k])
                      /\ Get(store, c.item[k]).status # c.val[c.item[k]].status

\* a job passes the filters given to ls -c
PassesFilters(job, args) ==
    /\ Truthy(args.status) => StatusMatches(job, args.status)
    /\ args.running => IsActive(job)

\* the fetched jobs that pass the filters, by their position
Passing(all_jobs, args) ==
    {i \in DOMAIN all_jobs : PassesFilters(all_jobs[i], args)}

\* ls -c has run to its display: it has not ended on an error
ListCookieDisplayed == ret.op = "ls -c" /\ ret.exit = 0 /\ ret.exc = "none"

\* C24: the jobs ls -c shows are fetched jobs that pass every filter given
\* (--status as a case-insensitive substring of the status, --running the
\* active statuses), in non-increasing order of created_at with the jobs
\* that lack it last, and they are the first --limit of the passing jobs in
\* that order: never more than limit, never fewer while a passing job is
\* left out, and no job left out was created later than a job shown.
C24_SortedFilteredThenTruncated ==
    ListCookieDisplayed =>
        LET all_jobs == ret.out.all_jobs
            shown == ret.out.shown
            passing == Passing(all_jobs, ret.args)
            ShownAt(k) == {i \in passing : all_jobs[i] = shown[k]}
            left_out == {i \in passing : \A k \in DOMAIN shown : all_jobs[i] # shown[k]}
        IN  /\ Len(shown) <= ret.args.limit
            /\ \A k \in DOMAIN shown :
                   /\ ShownAt(k) # {}
                   /\ PassesFilters(shown[k], ret.args)
            /\ \A k, l \in DOMAIN shown :
                   k < l => /\ shown[k].created_at >= shown[l].created_at
                            /\ shown[k] # shown[l]
            /\ Len(shown) = IF Cardinality(passing) < ret.args.limit
                            THEN Cardinality(passing) ELSE ret.args.limit
            /\ \A i \in left_out, k \in DOMAIN shown :
                   all_jobs[i].created_at <= shown[k].created_at

\* ls -c has shown fewer jobs than it fetched after a filter dropped a job
\* that sorts before the jobs shown, or it has shown last a job without
\* created_at that it fetched first
C24_Witness ==
    /\ ListCookieDisplayed
    /\ ret.out.shown # <<>>
    /\ \/ /\ Len(ret.out.shown) < Len(ret.out.all_jobs)
          /\ \E i \in DOMAIN ret.out.all_jobs :
                 /\ ~PassesFilters(ret.out.all_jobs[i], ret.args)
                 /\ ret.out.all_jobs[i].created_at > ret.out.shown[1].created_at
       \/ /\ Len(ret.out.shown) = 2
          /\ ret.out.shown[2].created_at = 0
          /\ ret.out.all_jobs[1] = ret.out.shown[2]

\* the list_node_dimension calls of avail that returned a page, and the
\* number of nodes of the page with no GPU in use and a GPU to use
QueriedGroups ==
    {i \in DOMAIN ret.calls :
        ret.calls[i].api = "list_node_dimension" /\ ret.calls[i].exc = "none"}
FreeCount(i) ==
    LET nodes == ret.calls[i].val.node_dimensions
    IN  Cardinality({k \in DOMAIN nodes : nodes[k].used = 0 /\ nodes[k].total > 0})
EnoughFree == {i \in QueriedGroups : FreeCount(i) >= ret.args.nodes}

\* the entry of the recommendation is the group the call asked about
IsGroupOf(r, i) ==
    /\ ret.calls[i].item = <<r.workspace_id, r.id>>
    /\ r.free_nodes = FreeCount(i)

\* C25: with a node-count threshold N avail recommends exactly the compute
\* groups whose query succeeded and whose free-node count (nodes with GPU
\* used = 0 and GPU total > 0) is at least N, each once, in non-increasing
\* order of the free-node count, so that the first one, which is exported,
\* has the maximum free-node count of all groups queried; it returns 1 when
\* no queried group has at least N free nodes and 0 otherwise.
C25_RecommendsGroupsWithEnoughFreeNodes ==
    (ret.op = "avail" /\ ret.args.nodes # 0 /\ ret.exc = "none") =>
        LET available == ret.out.available
        IN  /\ \A k \in DOMAIN available : \E i \in EnoughFree : IsGroupOf(available[k], i)
            /\ \A i \in EnoughFree :
                   Cardinality({k \in DOMAIN available : IsGroupOf(available[k], i)}) = 1
            /\ Len(available) = Cardinality(EnoughFree)
            /\ \A k, l \in DOMAIN available :
                   k < l => available[k].free_nodes >= available[l].free_nodes
            /\ EnoughFree # {} =>
                   /\ ret.exit = 0
                   /\ \A i \in QueriedGroups : available[1].free_nodes >= FreeCount(i)
            /\ EnoughFree = {} => ret.exit = 1

\* avail has recommended two groups of which the one queried later has more
\* free nodes, while a third group was left out or its query failed
C25_Witness ==
    /\ ret.op = "avail"
    /\ ret.args.nodes # 0
    /\ Len(ret.out.available) >= 2
    /\ Len(ret.calls) > Len(ret.out.available)
    /\ \E i, j \in EnoughFree :
           /\ i < j
           /\ FreeCount(i) < FreeCount(j)
           /\ IsGroupOf(ret.out.available[1], j)
    /\ \E i \in QueriedGroups :
           \E k \in DOMAIN ret.calls[i].val.node_dimensions :
               ret.calls[i].val.node_dimensions[k].total = 0

(***************************************************************************)
(* cookie: the session cookie is set from the argument, from a file or     *)
(* from the prompt, shown or cleared.  Here a cookie is a str like every   *)
(* other: a sequence of one-character strings, so that the lines of the    *)
(* file are stripped and tested as the code does.                          *)
(***************************************************************************)
CookieWord == <<"c", "o", "o", "k", "i", "e">>

\* for line in reversed(lines): the last line that, stripped, is not empty,
\* is no comment and is not the word "cookie"
RECURSIVE LastUsableLine(_)
LastUsableLine(lines) ==
    IF lines = <<>> THEN [found |-> FALSE, line |-> <<>>]
    ELSE LET line == strip(lines[Len(lines)])
         IN  IF Truthy(line) /\ ~startswith(line, <<"#">>) /\ line # CookieWord
             THEN [found |-> TRUE, line |-> line]
             ELSE LastUsableLine(SubSeq(lines, 1, Len(lines) - 1))

\* cookie [cookie] [-f file] [-w workspace] [--no-test], cookie --show and
\* cookie --clear; textfile is what the path of -f holds, reply what input()
\* gives
cmd_cookie(args, textfile, reply, file, now, oc, fault) ==
    LET from_file == LastUsableLine(textfile.lines)
        read == IF args.file /\ textfile.exists /\ from_file.found
                THEN from_file.line ELSE args.cookie
        asked == Falsy(read)
        cookie == IF asked THEN strip(reply.val) ELSE read
        workspace_id == IF Falsy(args.workspace) THEN <<>> ELSE args.workspace
        tested == ~args.no_test /\ Truthy(workspace_id)
        r == oc.list
        called == IF tested
                  THEN Called(Started, GatewayCall("list_jobs_with_cookie",
                                                   workspace_id, cookie, r))
                  ELSE Started
        w == save_cookie(file, cookie, workspace_id, now + 1, fault)
        gc == get_cookie(file)
    IN  IF args.clear
        THEN LeftCookie(Returns(Say(Started, Info("cookie_cleared")), 0),
                        unlink(file), now)
        ELSE IF args.show
        THEN IF gc.exc # "none" THEN LeftCookie(Raises(Started, gc.exc), file, now)
             ELSE LeftCookie(Returns(Say(Started,
                                         Info(IF "none" \in DOMAIN gc.val
                                              THEN "no_cookie_set"
                                              ELSE "cookie_shown")), 0),
                             file, now)
        ELSE IF args.file /\ ~textfile.exists
        THEN LeftCookie(Returns(Say(Started, Error("no_such_file")), 1), file, now)
        ELSE IF args.file /\ Falsy(read)
        THEN LeftCookie(Returns(Say(Started, Error("no_cookie_in_file")), 1), file, now)
        ELSE IF asked /\ reply.exc # "none"
        THEN LeftCookie(Raises(Started, reply.exc), file, now)
        ELSE IF Falsy(cookie)
        THEN LeftCookie(Returns(Say(Started, Error("empty_cookie")), 1), file, now)
        ELSE IF tested /\ r.exc = "QzAPIError"
        THEN LeftCookie(Returns(Say(called, ErrorOf("cookie_invalid", workspace_id,
                                                    r.val)), 1), file, now)
        ELSE IF tested /\ r.exc # "none"
        THEN LeftCookie(Raises(called, r.exc), file, now)
        ELSE IF w.exc # "none" THEN LeftCookie(Raises(called, w.exc), w.file, now + 1)
        ELSE LeftCookie(Returns(Say(called, Info("cookie_saved")), 0), w.file, now + 1)

\* one cookie command on a directory whose cookie document is missing,
\* truncated or holds the session of an earlier command
Cookie0 == <<"c", "0">>
Cookie1 == <<"c", "1">>
Cookie2 == <<"c", "2">>
CookieInit ==
    /\ cookiefile \in {Missing, Truncated,
                       JsonFile([cookie |-> Cookie0, workspace_id |-> Ws2, saved_at |-> 1])}
    /\ resfile = Missing
    /\ cfgfile = Missing
    /\ tokenfile = Missing
    /\ clock = 1
    /\ ret = NoCall
    /\ lastNonEmpty = [w \in WsIds |-> <<>>]
    /\ lastAssigned = [w \in WsIds |-> <<>>]
    /\ Idle
    /\ store = EmptyDict

\* what the path of -f holds: nothing, no line, lines of which none is
\* usable, or lines with a cookie among blanks, comments and the word
TextFiles ==
    {[exists |-> FALSE, lines |-> <<>>],
     [exists |-> TRUE, lines |-> <<>>],
     [exists |-> TRUE, lines |-> <<<<"#", "c", "2">>, CookieWord, <<" ">>>>],
     [exists |-> TRUE, lines |-> <<Cookie1, <<"#">>, <<" ">> \o Cookie2 \o <<" ">>, <<>>>>]}

SetArgs ==
    [clear : {FALSE}, show : {FALSE}, cookie : {PyNone, Cookie1}, file : BOOLEAN,
     workspace : {PyNone, Ws1}, no_test : BOOLEAN]
ShowArgs ==
    [clear |-> FALSE, show |-> TRUE, cookie |-> PyNone, file |-> FALSE,
     workspace |-> PyNone, no_test |-> FALSE]
ClearArgs == [ShowArgs EXCEPT !.clear = TRUE, !.show = FALSE]

CookieReplies ==
    {Return(<<" ">> \o Cookie2), Return(<<" ">>), Raise("KeyboardInterrupt"),
     Raise("EOFError")}

\* the answers of the validation call
TestOutcomes == <<Return([jobs |-> <<>>, total |-> 0])>> \o Failures
TestOracle(choice) == [list |-> TestOutcomes[choice]]

NoTextFile == [exists |-> FALSE, lines |-> <<>>]
NoReply == Raise("EOFError")

CmdCookie(args, textfile, reply, oc, fault) ==
    LET r == cmd_cookie(args, textfile, reply, cookiefile, clock, oc, fault)
    IN  /\ r.clock <= MaxTime
        /\ ret' = Ran("cookie", args, main(r.run)) @@
                  [textfile |-> textfile, reply |-> reply]
        /\ cookiefile' = r.cookiefile
        /\ clock' = r.clock
        /\ UNCHANGED <<resfile, store, cmdFrame>>

CookieNext ==
    \/ Fresh /\ \E args \in SetArgs, t \in TextFiles, reply \in CookieReplies,
                   c \in DOMAIN TestOutcomes, f \in {"none", "dump"} :
                    CmdCookie(args, t, reply, TestOracle(c), f)
    \/ Fresh /\ CmdCookie(ShowArgs, NoTextFile, NoReply, TestOracle(1), "none")
    \/ Fresh /\ CmdCookie(ClearArgs, NoTextFile, NoReply, TestOracle(1), "none")

SpecCookie == CookieInit /\ [][CookieNext]_vars

\* the lines of a file that are usable as a cookie
UsableLines(lines) ==
    {i \in DOMAIN lines :
        LET line == strip(lines[i])
        IN  line # <<>> /\ line[1] # "#" /\ line # CookieWord}

\* the same document is in the file
SameDocument(a, b) == a.kind = b.kind /\ (a.kind = "json" => a.val = b.val)

\* cookie was asked to set the cookie
SetsCookie(r) == r.op = "cookie" /\ ~r.args.clear /\ ~r.args.show

\* the validation call of the command, if it made one, and how it ended
Validated(r) ==
    \E i \in DOMAIN r.calls :
        r.calls[i].api = "list_jobs_with_cookie" /\ r.calls[i].exc = "none"
ValidationFailed(r) ==
    \E i \in DOMAIN r.calls :
        r.calls[i].api = "list_jobs_with_cookie" /\ r.calls[i].exc = "QzAPIError"
ValidationSkipped(r) == r.args.no_test \/ Falsy(r.args.workspace)

\* the file given with -f is missing or holds no usable line
NoCookieInFile(r) ==
    r.args.file /\ (~r.textfile.exists \/ UsableLines(r.textfile.lines) = {})

\* the command wrote the cookie document only with a non-empty cookie and
\* after the validation succeeded or was skipped
WrittenOnlyWhenValid ==
    ~SameDocument(cookiefile', cookiefile) =>
        /\ IF cookiefile'.kind = "json"
           THEN cookiefile'.val.cookie # <<>> ELSE ret'.exc = "IOError"
        /\ IF ValidationSkipped(ret') THEN ret'.calls = <<>> ELSE Validated(ret')

\* C26 as stated: the cookie command overwrites the stored session only with
\* a non-empty cookie and only after the validation succeeded or was skipped
\* (--no-test or no workspace); when the validation call raises an API
\* error, or the cookie file is missing or holds no usable line, it returns
\* 1 and the stored cookie document is unchanged.
C26_RejectedCookieLeavesSession ==
    [][SetsCookie(ret') =>
          /\ WrittenOnlyWhenValid
          /\ (ValidationFailed(ret') \/ NoCookieInFile(ret')) =>
                 /\ ret'.exit = 1
                 /\ SameDocument(cookiefile', cookiefile)]_vars

\* res was asked about a workspace (not for the list of the cached ones)
ResRan(r) == r.op = "res" /\ ~r.args.list

\* res --name without --update: the mode that only names the workspace
RenameOnly(r) == Truthy(r.args.name) /\ ~r.args.update

\* the job listing of res returned at least one job; it raised an API error
\* or returned none
ListedJobs(r) ==
    \E i \in DOMAIN r.calls :
        /\ r.calls[i].api = "list_jobs_with_cookie"
        /\ r.calls[i].exc = "none"
        /\ r.calls[i].val.jobs # <<>>
ListingFailedOrEmpty(r) ==
    \E i \in DOMAIN r.calls :
        /\ r.calls[i].api = "list_jobs_with_cookie"
        /\ \/ r.calls[i].exc = "QzAPIError"
           \/ r.calls[i].exc = "none" /\ r.calls[i].val.jobs = <<>>

\* the workspace a token of -w stands for on the cache and the session
\* stored: the token if it is an id, the workspace of that name, or the
\* default workspace of the session ("" if there is none)
ResTarget(token) ==
    IF token = <<>>
    THEN IF cookiefile.kind = "json" THEN DefaultWorkspace(cookiefile.val) ELSE <<>>
    ELSE IF HasPrefix(token, WsPrefix) THEN token
    ELSE LET f == find_workspace_by_name(resfile, token)
         IN  IF f.exc = "none" /\ f.val.found THEN f.val.id ELSE <<>>

\* the workspace res is asked about is cached
CacheHit(r) ==
    /\ resfile.kind = "json"
    /\ cookiefile.kind \in {"json", "missing"}
    /\ ~Falsy(ResTarget(r.args.workspace))
    /\ HasKey(resfile.val, ResTarget(r.args.workspace))

\* the maps and updated_at of every workspace cached before are as they were
ResourcesKept ==
    resfile.kind = "json" =>
        /\ resfile'.kind = "json"
        /\ \A i \in DOMAIN resfile.val :
               /\ HasKey(resfile'.val, resfile.val[i].k)
               /\ [Get(resfile'.val, resfile.val[i].k) EXCEPT !.name = <<>>]
                      = [resfile.val[i].v EXCEPT !.name = <<>>]

\* C27 as stated: res overwrites the cached resources of a workspace only
\* after a job listing that succeeded and returned at least one job; on a
\* cache hit without --update it makes no gateway call and leaves the cache
\* unchanged; when the listing raises an API error or returns no jobs the
\* cached entry (maps, alias and updated_at) is unchanged.
C27_CacheUnchangedWithoutListing ==
    [][ResRan(ret') =>
          /\ ~ResourcesKept => ListedJobs(ret')
          /\ (CacheHit(ret') /\ ~ret'.args.update) =>
                 /\ ret'.calls = <<>>
                 /\ resfile' = resfile
          /\ ListingFailedOrEmpty(ret') => resfile' = resfile]_vars

\* C27 as amended: res writes the cache file, outside the mode that only
\* names a workspace, only after a job listing that succeeded and returned
\* at least one job; on a cache hit without --update and without --name it
\* makes no gateway call and leaves the cache unchanged; with --name and
\* without --update it makes no gateway call and, when it returns 0, has set
\* the alias of the workspace and left every other entry, and the maps and
\* updated_at of a cached workspace, as they were; when the listing raises an
\* API error or returns no jobs the cache is unchanged.
C27_CacheWrittenAfterListingOrToName ==
    [][ResRan(ret') =>
          /\ (~RenameOnly(ret') /\ resfile' # resfile) => ListedJobs(ret')
          /\ (CacheHit(ret') /\ ~ret'.args.update /\ ~Truthy(ret'.args.name)) =>
                 /\ ret'.calls = <<>>
                 /\ resfile' = resfile
          /\ RenameOnly(ret') =>
                 /\ ret'.calls = <<>>
                 /\ ret'.exit = 0 =>
                        /\ ResourcesKept
                        /\ resfile'.kind = "json"
                        /\ HasKey(resfile'.val, ret'.args.workspace)
                        /\ Get(resfile'.val, ret'.args.workspace).name = ret'.args.name
                        /\ \A w \in Keys(load_all_resources(resfile).val)
                                      \ {ret'.args.workspace} :
                               Get(resfile'.val, w) = Get(resfile.val, w)
          /\ ListingFailedOrEmpty(ret') => resfile' = resfile]_vars

\* res --name has put a new alias on a cached workspace that has compute
\* groups, without a gateway call
C27_Witness ==
    /\ ResRan(ret)
    /\ RenameOnly(ret)
    /\ ret.exit = 0
    /\ ret.calls = <<>>
    /\ resfile.kind = "json"
    /\ HasKey(resfile.val, ret.args.workspace)
    /\ Get(resfile.val, ret.args.workspace).name = ret.args.name
    /\ Get(resfile.val, ret.args.workspace).compute_groups # EmptyDict
    /\ Get(resfile.val, ret.args.workspace).updated_at = 1
    /\ clock = 1

====
